---- MODULE Spec2Model ----
(***************************************************************************)
(* Model of the OAuth provider in server.js (the second program of the    *)
(* file, lines 127-504): the client registry, the three in-memory stores, *)
(* the session, and the request handlers of /oauth/authorize,             *)
(* /oauth/token and the Bearer-protected resources.                       *)
(*                                                                         *)
(* Node runs a synchronous handler to completion, so every handler is one *)
(* atomic step.  Each handler is written as an operator from a state `st` *)
(* (the stores, the sessions, the clock) and a request to the answer      *)
(* `resp` the client receives and the state `st` the handler leaves; the  *)
(* action of the same name applies it to the current state.  Properties   *)
(* of an answer are stated over the handler operator in every reachable   *)
(* state, for every request.                                              *)
(***************************************************************************)
EXTENDS Integers, Sequences, FiniteSets, TLC

(* ------------------------------ bounds -------------------------------- *)
\* number of authorization codes crypto.randomBytes hands out in one behaviour
MaxCodes == 1
\* number of access tokens crypto.randomBytes hands out in one behaviour
MaxAccess == 2
\* number of clock advances in one behaviour
MaxTicks == 1

(* -------------------------- program constants ------------------------- *)
CodeTTL == 10 * 60 * 1000
ExpiresIn == 3600

\* a JavaScript undefined (absent query/body field, absent req.user)
Undefined == "<undefined>"
\* scope strings are sequences of characters; this one stands for an absent scope
NoScope == << Undefined >>

RegisteredClient == "onshape-client-id"
RegisteredSecret == "your-app-client-secret"
RegisteredUri == "https://cad.onshape.com/oauth/callback"

clients ==
    [ id \in {RegisteredClient} |->
        [ clientId |-> "your-app-client-id",
          clientSecret |-> RegisteredSecret,
          redirectUris |-> << RegisteredUri >> ] ]

(* ------------------------- inputs of the requests --------------------- *)
Sessions == {"s1"}
Users == {"u1"}
\* crypto.randomBytes(32).toString('hex'): the i-th value drawn for a code ("c"),
\* an access token ("a") or a refresh token ("r"); 256 random bits do not repeat
RandomHex(kind, i) == kind \o ToString(i)
CodeKeys == { RandomHex("c", i) : i \in 1 .. MaxCodes }
AccessKeys == { RandomHex("a", i) : i \in 1 .. MaxAccess }
RefreshKeys == { RandomHex("r", i) : i \in 1 .. MaxCodes }
ClientIds == {RegisteredClient, "evil-client", Undefined}
Secrets == {RegisteredSecret, "wrong-secret", Undefined}
RedirectUris == {RegisteredUri, "https://evil.example/cb", "not a url", Undefined}
ResponseTypes == {"code", "token"}
GrantTypes == {"authorization_code", "refresh_token", "password"}
Actions == {"approve", "deny", "other"}
\* a scope string is a sequence of words and separators
ScopeInputs == { NoScope, << >>, << "read" >>, << "read", " ", "write" >> }
\* state as a string of characters; "&" is the one that has a meaning in a query
NoState == << Undefined >>
StateInputs == { NoState, << >>, << "xyz" >>, << "a", "&", "b" >> }
\* the Authorization header: absent, without a token, or with a token
HeaderInputs == { << >>, << "Bearer" >> } \cup { << "Bearer", " ", k >> : k \in AccessKeys }
\* the clock advances by the lifetime of a code, or to just past the lifetime of an
\* access token
ClockSteps == { CodeTTL, ExpiresIn * 1000 + 1 }

(* --------------------------- pure functions --------------------------- *)
\* Array.prototype.includes on client.redirectUris
Includes(arr, x) == \E i \in 1 .. Len(arr) : arr[i] = x

\* String.prototype.split(sep) for a one-character separator
RECURSIVE SplitFrom(_, _, _)
SplitFrom(s, sep, cur) ==
    IF s = << >> THEN << cur >>
    ELSE IF Head(s) = sep THEN << cur >> \o SplitFrom(Tail(s), sep, << >>)
    ELSE SplitFrom(Tail(s), sep, Append(cur, Head(s)))

Split(s, sep) == SplitFrom(s, sep, << >>)

\* Array.prototype.join(sep)
RECURSIVE Join(_, _)
Join(arr, sep) ==
    IF arr = << >> THEN << >>
    ELSE IF Len(arr) = 1 THEN arr[1]
    ELSE arr[1] \o << sep >> \o Join(Tail(arr), sep)

\* JavaScript truthiness of an optional string (undefined and '' are falsy)
Truthy(v) == v # << Undefined >> /\ v # << >>

\* the same for a scope string
TruthyScope(scope) == scope # NoScope /\ scope # << >>

\* a scope the body parser delivers as an array (scope=a&scope=b): truthy, and
\* without a split method
ArrayScope == << "<array>" >>

\* the scope values of a form body: the strings, and the array
BodyScopes == ScopeInputs \cup { ArrayScope }

\* scope.split is not a function: the call throws a TypeError
SplitThrows(scope) == scope = ArrayScope

\* scope ? scope.split(' ') : []
ScopesOf(scope) == IF TruthyScope(scope) THEN Split(scope, " ") ELSE << >>

\* URLSearchParams serialisation of a value: the characters with a meaning in a
\* query string are percent-encoded
RECURSIVE EncodeParam(_)
EncodeParam(v) ==
    IF v = << >> THEN << >>
    ELSE << (IF Head(v) = "&" THEN "%26" ELSE IF Head(v) = "=" THEN "%3D"
             ELSE IF Head(v) = "?" THEN "%3F" ELSE IF Head(v) = " " THEN "+"
             ELSE Head(v)) >>
         \o EncodeParam(Tail(v))

\* percent-decoding of a query value
RECURSIVE DecodeParam(_)
DecodeParam(v) ==
    IF v = << >> THEN << >>
    ELSE << (IF Head(v) = "%26" THEN "&" ELSE IF Head(v) = "%3D" THEN "="
             ELSE IF Head(v) = "%3F" THEN "?" ELSE IF Head(v) = "+" THEN " "
             ELSE Head(v)) >>
         \o DecodeParam(Tail(v))

\* the query string of a URL: what follows the first "?"
RECURSIVE QueryOf(_)
QueryOf(url) ==
    IF url = << >> THEN << >>
    ELSE IF Head(url) = "?" THEN Tail(url)
    ELSE QueryOf(Tail(url))

\* the value of the first parameter called name in the query of url, as a query
\* parser reads it (pairs between "&", name before "=", value decoded);
\* NoState when there is none
SearchParam(url, name) ==
    LET pairs == Split(QueryOf(url), "&")
        hits == { i \in 1 .. Len(pairs) :
                    Len(pairs[i]) >= 2 /\ pairs[i][1] = name /\ pairs[i][2] = "=" }
    IN  IF hits = {} THEN << Undefined >>
        ELSE LET i == CHOOSE i \in hits : \A j \in hits : i <= j
             IN  DecodeParam(SubSeq(pairs[i], 3, Len(pairs[i])))

\* `${redirect_uri}?error=access_denied&state=${state || ''}`
DenyUrl(redirect_uri, state) ==
    << redirect_uri, "?", "error", "=", "access_denied", "&", "state", "=" >>
        \o (IF Truthy(state) THEN state ELSE << >>)

\* new URL(redirect_uri) with searchParams code and, when state is truthy, state
ApproveUrl(redirect_uri, code, state) ==
    << redirect_uri, "?", "code", "=", code >>
        \o (IF Truthy(state) THEN << "&", "state", "=" >> \o EncodeParam(state)
            ELSE << >>)

\* a reading of the header that takes its first word, the scheme, for the token
TokenOfFirstWord(authHeader) ==
    IF authHeader = << >> THEN Undefined
    ELSE LET parts == Split(authHeader, " ")
         IN  IF parts[1] = << >> THEN Undefined ELSE parts[1][1]

\* authHeader && authHeader.split(' ')[1]; Undefined stands for every falsy token
TokenOf(authHeader) ==
    IF authHeader = << >> THEN Undefined
    ELSE LET parts == Split(authHeader, " ")
         IN  IF Len(parts) < 2 \/ parts[2] = << >> THEN Undefined ELSE parts[2][1]

\* new URL(x) throws TypeError for a string that is not an absolute URL
ParsesAsURL(uri) == uri \in {RegisteredUri, "https://evil.example/cb"}

\* a map with one more entry (Map.prototype.set overwrites an existing key)
MapSet(m, k, v) == [ x \in DOMAIN m \cup {k} |-> IF x = k THEN v ELSE m[x] ]

\* Map.prototype.delete
MapDelete(m, k) == [ x \in DOMAIN m \ {k} |-> m[x] ]

EmptyMap == [ x \in {} |-> 0 ]

(* -------------------------------- state ------------------------------- *)
VARIABLES
    authorizationCodes, \* code -> [userId, clientId, redirectUri, scopes, expiresAt]
    accessTokens,       \* token -> [userId, clientId, scopes, expiresAt]
    refreshTokens,      \* refresh token -> [userId, clientId, scopes]
    sessions,           \* session -> [user, pendingOAuth]
    now,                \* Date.now()
    issued,             \* how many codes, access and refresh tokens were drawn so far
    ticks,              \* clock advances so far
    browser,            \* session -> [location, page]: the URL of this server the
                        \* browser was last redirected to and has yet to request,
                        \* and the page it was served; followed in FlowSpec only
    requests,           \* request -> [pc, body, seen, resp]: the token requests in
                        \* flight, from arrival to answer; followed in RaceSpec only
    mockProjects,       \* the array of projects of the mock DatabaseService
    clock,              \* Date.now() of the page that runs the DatabaseService
    calls               \* call -> [pc, op, projectId, subsystemId, arg, due, result,
                        \* summary]: the calls of the DatabaseService, from the call
                        \* to the settling of its promise; followed in DbSpec only

vars ==
    << authorizationCodes, accessTokens, refreshTokens, sessions, now, issued, ticks,
       browser, requests, mockProjects, clock, calls >>

\* the state of the authorization server
serverVars ==
    << authorizationCodes, accessTokens, refreshTokens, sessions, now, issued, ticks,
       browser, requests >>

\* the state of the page that runs the mock DatabaseService
dbVars == << mockProjects, clock, calls >>

\* the state the handlers read and write
Cur ==
    [ authorizationCodes |-> authorizationCodes, accessTokens |-> accessTokens,
      refreshTokens |-> refreshTokens, sessions |-> sessions, now |-> now,
      issued |-> issued ]

\* the token requests that can be in flight together
Requests == { "q1", "q2" }

\* the calls of the DatabaseService a run makes
MaxCalls == 2
Calls == 1 .. MaxCalls

\* Date.now() when the page is loaded
DbEpoch == 1000

\* the delay of setTimeout in every method of the mock
ApiDelay == 500

\* how many delays the clock runs for
MaxDelays == 2

\* const mockProjects: Project[] = [...], the fields the service reads
InitialProjects ==
    << [ _id |-> "1",
         subsystems |-> << [ _id |-> "s1", parts |-> << [ _id |-> "p1" ] >>,
                             assemblies |-> << [ _id |-> "a1" ] >> ] >> ],
       [ _id |-> "2",
         subsystems |-> << [ _id |-> "s2", parts |-> << [ _id |-> "p2" ] >>,
                             assemblies |-> << >> ] >> ] >>

\* a call that was not made yet
NoCall ==
    [ pc |-> "idle", op |-> "", projectId |-> "", subsystemId |-> "",
      arg |-> [ subsystems |-> << >>, parts |-> << >>, assemblies |-> << >> ],
      due |-> 0, result |-> "",
      summary |-> [ total_parts |-> 0, total_assemblies |-> 0, total_subsystems |-> 0,
                    total_projects |-> 0 ] ]

Init ==
    /\ authorizationCodes = EmptyMap
    /\ accessTokens = EmptyMap
    /\ refreshTokens = EmptyMap
    /\ sessions = [ s \in Sessions |-> [ user |-> Undefined, pendingOAuth |-> << >> ] ]
    /\ now = 0
    /\ issued = [ code |-> 0, access |-> 0, refresh |-> 0 ]
    /\ ticks = 0
    /\ browser = [ s \in Sessions |-> [ location |-> << >>, page |-> "" ] ]
    /\ requests = [ q \in Requests |->
                      [ pc |-> "idle", body |-> << >>, seen |-> << >>, resp |-> << >> ] ]
    /\ mockProjects = InitialProjects
    /\ clock = DbEpoch
    /\ calls = [ k \in Calls |-> NoCall ]

\* the effect of a handler on the stores and sessions, while the keys of the
\* bounded key sets last
Store(h) ==
    /\ h.st.issued.code <= MaxCodes
    /\ h.st.issued.access <= MaxAccess
    /\ authorizationCodes' = h.st.authorizationCodes
    /\ accessTokens' = h.st.accessTokens
    /\ refreshTokens' = h.st.refreshTokens
    /\ sessions' = h.st.sessions
    /\ now' = h.st.now
    /\ issued' = h.st.issued
    /\ UNCHANGED ticks
    /\ UNCHANGED dbVars

\* a handler's step
Apply(h) == Store(h) /\ UNCHANGED << browser, requests >>

\* a handler's step seen from the browser of session s: it receives a redirect to
\* location, or is served page
Visit(s, h, location, page) ==
    /\ Store(h)
    /\ browser' = [ browser EXCEPT ![s] = [ location |-> location, page |-> page ] ]
    /\ UNCHANGED requests

(* ------------------------------- the clock ---------------------------- *)
Tick ==
    /\ ticks < MaxTicks
    /\ \E d \in ClockSteps : now' = now + d
    /\ ticks' = ticks + 1
    /\ UNCHANGED << authorizationCodes, accessTokens, refreshTokens, sessions, issued,
                    browser, requests >>
    /\ UNCHANGED dbVars

(* ------------------- upstream sign-in (/oauthRedirect) ---------------- *)
\* passport.authenticate('onshape'): the upstream provider names the principal
\* (success) or refuses (failureRedirect)
OAuthRedirectHandler(st, s, u) ==
    IF u \in Users
    THEN [ resp |-> [ status |-> 302, error |-> "", redirect |-> "/" ],
           st |-> [ st EXCEPT !.sessions[s].user = u ] ]
    ELSE [ resp |-> [ status |-> 302, error |-> "", redirect |-> "/grantDenied" ],
           st |-> st ]

OAuthRedirect(s, u) == Apply(OAuthRedirectHandler(Cur, s, u))

(* ------------------------------ GET / --------------------------------- *)
\* the home page: a signed-out session is sent to the sign-in route; for a signed-in
\* one the upstream token is refreshed (refreshed tells whether that succeeded) and
\* index.html is served, or the session is sent to the sign-in route.  The handler
\* answers the request itself: it neither reads nor writes the pending authorization.
\* a home page that calls the upstream again and again after a failure
UpstreamCallsRetrying(st, s, refreshed) ==
    IF st.sessions[s].user = Undefined THEN 0 ELSE IF refreshed THEN 1 ELSE 3

\* the calls of the upstream token endpoint one home-page request makes: none for a
\* signed-out session; else the one fetch of refreshAccessToken, whose failure is
\* answered by the catch without another call
UpstreamCalls(st, s, refreshed) ==
    IF st.sessions[s].user = Undefined THEN 0 ELSE 1

\* a home page that sweeps the expired codes and access tokens out of the stores
HomeHandlerSweeping(st, s, refreshed) ==
    LET live(m) == { k \in DOMAIN m : st.now <= m[k].expiresAt }
    IN  [ resp |-> [ status |-> 302, error |-> "", redirect |-> "/oauthSignin",
                     page |-> "", refreshCalls |-> UpstreamCalls(st, s, refreshed) ],
          st |-> [ st EXCEPT
                     !.authorizationCodes = [ k \in live(@) |-> @[k] ],
                     !.accessTokens = [ k \in live(@) |-> @[k] ] ] ]

HomeHandler(st, s, refreshed) ==
    IF st.sessions[s].user # Undefined /\ refreshed
    THEN [ resp |-> [ status |-> 200, error |-> "", redirect |-> "", page |-> "index",
                      refreshCalls |-> UpstreamCalls(st, s, refreshed) ],
           st |-> st ]
    ELSE [ resp |-> [ status |-> 302, error |-> "", redirect |-> "/oauthSignin",
                      page |-> "", refreshCalls |-> UpstreamCalls(st, s, refreshed) ],
           st |-> st ]

Home(s, refreshed) == Apply(HomeHandler(Cur, s, refreshed))

(* ------------- the pending-authorization middleware ------------------- *)
\* the elements of the array a repeated query parameter is parsed to
ArrayElements == << << "a" >>, << "b" >> >>

\* the string URLSearchParams makes of a value: a string is itself, an array is its
\* elements joined by ","
ToUSVString(v) == IF v = ArrayScope THEN Join(ArrayElements, ",") ELSE v

\* one parameter of a query string; a field that is undefined is not in the session
\* that was saved, and so not in the query
QueryPair(name, v) ==
    IF v = << Undefined >> THEN << >>
    ELSE << "&", name, "=" >> \o EncodeParam(ToUSVString(v))

\* `/oauth/authorize?${new URLSearchParams(pending)}`
AuthorizeUrl(pending) ==
    << "/oauth/authorize", "?", "response_type", "=", pending.response_type,
       "&", "client_id", "=", pending.client_id,
       "&", "redirect_uri", "=", pending.redirect_uri >>
        \o QueryPair("scope", pending.scope) \o QueryPair("state", pending.state)

\* a middleware that redirects and leaves the pending authorization in the session
UnmatchedKeepingPending(st, s) ==
    IF st.sessions[s].user # Undefined /\ st.sessions[s].pendingOAuth # << >>
    THEN [ resp |-> [ status |-> 302, error |-> "", redirect |-> "/oauth/authorize",
                      url |-> AuthorizeUrl(st.sessions[s].pendingOAuth[1]) ],
           st |-> st ]
    ELSE [ resp |-> [ status |-> 404, error |-> "", redirect |-> "", url |-> << >> ],
           st |-> st ]

\* The middleware is registered after every route, so it runs only for a request
\* that no route answers.  With a signed-in principal and a pending authorization it
\* deletes the pending authorization and redirects to the authorization endpoint;
\* otherwise it calls next() and the request is answered 404.
UnmatchedHandler(st, s) ==
    IF st.sessions[s].user # Undefined /\ st.sessions[s].pendingOAuth # << >>
    THEN [ resp |-> [ status |-> 302, error |-> "", redirect |-> "/oauth/authorize",
                      url |-> AuthorizeUrl(st.sessions[s].pendingOAuth[1]) ],
           st |-> [ st EXCEPT !.sessions[s].pendingOAuth = << >> ] ]
    ELSE [ resp |-> [ status |-> 404, error |-> "", redirect |-> "", url |-> << >> ],
           st |-> st ]

Unmatched(s) == Apply(UnmatchedHandler(Cur, s))

(* ------------------------- GET /oauth/authorize ----------------------- *)
\* a validation that lets an unknown client pass
AuthorizeRejectionKnownOnly(response_type, client_id, redirect_uri) ==
    IF response_type # "code" THEN "unsupported_response_type"
    ELSE IF client_id \in DOMAIN clients
            /\ ~ Includes(clients[client_id].redirectUris, redirect_uri)
    THEN "invalid_redirect_uri"
    ELSE ""

\* the validation of the request: the error it is rejected with, "" when it passes
AuthorizeRejection(response_type, client_id, redirect_uri) ==
    IF response_type # "code" THEN "unsupported_response_type"
    ELSE IF client_id \notin DOMAIN clients THEN "invalid_client"
    ELSE IF ~ Includes(clients[client_id].redirectUris, redirect_uri)
    THEN "invalid_redirect_uri"
    ELSE ""

\* a stash that forgets the state parameter
StashPendingWithoutState(st, s, response_type, client_id, redirect_uri, scope, state) ==
    [ st EXCEPT !.sessions[s].pendingOAuth =
        << [ response_type |-> response_type, client_id |-> client_id,
             redirect_uri |-> redirect_uri, scope |-> scope, state |-> NoState ] >> ]

\* a stash that keeps the pending authorization the session already holds
StashPendingUnlessPending(st, s, response_type, client_id, redirect_uri, scope, state) ==
    IF st.sessions[s].pendingOAuth # << >> THEN st
    ELSE [ st EXCEPT !.sessions[s].pendingOAuth =
             << [ response_type |-> response_type, client_id |-> client_id,
                  redirect_uri |-> redirect_uri, scope |-> scope, state |-> state ] >> ]

\* req.session.pendingOAuth = { response_type, client_id, redirect_uri, scope, state }
StashPending(st, s, response_type, client_id, redirect_uri, scope, state) ==
    [ st EXCEPT !.sessions[s].pendingOAuth =
        << [ response_type |-> response_type, client_id |-> client_id,
             redirect_uri |-> redirect_uri, scope |-> scope, state |-> state ] >> ]

\* a handler that stashes the request of a signed-out session before validating it
AuthorizeGetStashingFirst(st, s, response_type, client_id, redirect_uri, scope, state) ==
    LET R(status, error, redirect, consent) ==
            [ status |-> status, error |-> error, redirect |-> redirect,
              consent |-> consent ]
        rejection == AuthorizeRejection(response_type, client_id, redirect_uri)
        stashed == [ st EXCEPT !.sessions[s].pendingOAuth =
                       << [ response_type |-> response_type, client_id |-> client_id,
                            redirect_uri |-> redirect_uri, scope |-> scope,
                            state |-> state ] >> ]
    IN  IF st.sessions[s].user = Undefined
        THEN IF rejection # ""
             THEN [ resp |-> R(400, rejection, "", FALSE), st |-> stashed ]
             ELSE [ resp |-> R(302, "", "/oauthSignin", FALSE), st |-> stashed ]
        ELSE IF rejection # ""
        THEN [ resp |-> R(400, rejection, "", FALSE), st |-> st ]
        ELSE [ resp |-> R(200, "", "", TRUE), st |-> st ]

\* app.get('/oauth/authorize')
AuthorizeGetHandler(st, s, response_type, client_id, redirect_uri, scope, state) ==
    LET R(status, error, redirect, consent) ==
            [ status |-> status, error |-> error, redirect |-> redirect,
              consent |-> consent ]
        rejection == AuthorizeRejection(response_type, client_id, redirect_uri)
    IN  IF rejection # ""
        THEN [ resp |-> R(400, rejection, "", FALSE), st |-> st ]
        ELSE IF st.sessions[s].user = Undefined
        THEN [ resp |-> R(302, "", "/oauthSignin", FALSE),
               st |-> StashPending(st, s, response_type, client_id, redirect_uri,
                                   scope, state) ]
        ELSE [ resp |-> R(200, "", "", TRUE), st |-> st ]

AuthorizeGet(s, response_type, client_id, redirect_uri, scope, state) ==
    Apply(AuthorizeGetHandler(Cur, s, response_type, client_id, redirect_uri, scope, state))

(* ------------------------- POST /oauth/authorize ---------------------- *)
\* authorizationCodes.set(code, {...}) of the approve branch
MintCode(st, code, user, client_id, redirect_uri, scope) ==
    [ st EXCEPT
        !.authorizationCodes =
            MapSet(@, code,
                   [ userId |-> user, clientId |-> client_id, redirectUri |-> redirect_uri,
                     scopes |-> ScopesOf(scope), expiresAt |-> st.now + CodeTTL ]),
        !.issued.code = @ + 1 ]

\* a test that takes every action but deny for an approval
IsApproveUnlessDeny(action) == action # "deny"

\* action === 'approve'
IsApprove(action) == action = "approve"

\* a check that takes every session for signed in
AuthenticatedAlways(st, s) == TRUE

\* req.user: the session of the request has an authenticated principal
Authenticated(st, s) == st.sessions[s].user # Undefined

\* An exception thrown by the handler is answered by the framework with status
\* 500: scope.split on a scope that is not a string throws before the code is
\* stored, new URL(redirect_uri) throws after it is stored.
AuthorizePostHandler(st, s, action, client_id, redirect_uri, scope, state) ==
    LET R(status, error, redirect, code, url) ==
            [ status |-> status, error |-> error, redirect |-> redirect,
              code |-> code, url |-> url ]
        user == st.sessions[s].user
        code == RandomHex("c", st.issued.code + 1)
    IN  IF ~ Authenticated(st, s)
        THEN [ resp |-> R(401, "unauthorized", "", Undefined, << >>), st |-> st ]
        ELSE IF action = "deny"
        THEN [ resp |-> R(302, "", redirect_uri, Undefined,
                          DenyUrl(redirect_uri, state)),
               st |-> st ]
        ELSE IF IsApprove(action) /\ SplitThrows(scope)
        THEN [ resp |-> R(500, "TypeError", "", Undefined, << >>), st |-> st ]
        ELSE IF IsApprove(action)
        THEN [ resp |-> IF ParsesAsURL(redirect_uri)
                        THEN R(302, "", redirect_uri, code,
                               ApproveUrl(redirect_uri, code, state))
                        ELSE R(500, "TypeError", "", Undefined, << >>),
               st |-> MintCode(st, code, user, client_id, redirect_uri, scope) ]
        ELSE [ resp |-> R(400, "invalid_request", "", Undefined, << >>), st |-> st ]

AuthorizePost(s, action, client_id, redirect_uri, scope, state) ==
    Apply(AuthorizePostHandler(Cur, s, action, client_id, redirect_uri, scope, state))

(* --------------------------- POST /oauth/token ------------------------ *)
\* a check that looks at the client_id only
ValidClientIdOnly(client_id, client_secret) == client_id \in DOMAIN clients

\* the client credentials check
ValidClient(client_id, client_secret) ==
    /\ client_id \in DOMAIN clients
    /\ clients[client_id].clientSecret = client_secret

\* Date.now() > authCode.expiresAt
CodeExpired(st, authCode) == st.now > authCode.expiresAt

\* an expiry check that leaves the expired code in the store
KeepExpiredCode(st, code) == st

\* a rejection of an expired code that still stores an access token for it
DropExpiredCodeMinting(st, code) ==
    [ st EXCEPT
        !.authorizationCodes = MapDelete(@, code),
        !.accessTokens =
            MapSet(@, RandomHex("a", st.issued.access + 1),
                   [ userId |-> st.authorizationCodes[code].userId,
                     clientId |-> st.authorizationCodes[code].clientId,
                     scopes |-> st.authorizationCodes[code].scopes,
                     expiresAt |-> st.now + ExpiresIn * 1000 ]) ]

\* authorizationCodes.delete(code) of the expiry check
DropExpiredCode(st, code) == [ st EXCEPT !.authorizationCodes = MapDelete(@, code) ]

\* a binding check that forgets the redirect URI
CodeBoundToClientOnly(authCode, client_id, redirect_uri) == authCode.clientId = client_id

\* the binding of the code to the client and the redirect URI of its request
CodeBound(authCode, client_id, redirect_uri) ==
    /\ authCode.clientId = client_id
    /\ authCode.redirectUri = redirect_uri

\* an exchange that grants a scope the code does not carry
ExchangeCodeWideningScopes(st, code, client_id, accessToken, newRefreshToken) ==
    LET authCode == st.authorizationCodes[code]
    IN  [ st EXCEPT
            !.accessTokens =
                MapSet(@, accessToken,
                       [ userId |-> authCode.userId, clientId |-> client_id,
                         scopes |-> Append(authCode.scopes, << "admin" >>),
                         expiresAt |-> st.now + ExpiresIn * 1000 ]),
            !.refreshTokens =
                MapSet(@, newRefreshToken,
                       [ userId |-> authCode.userId, clientId |-> client_id,
                         scopes |-> authCode.scopes ]),
            !.authorizationCodes = MapDelete(@, code),
            !.issued.access = @ + 1,
            !.issued.refresh = @ + 1 ]

\* an exchange that forgets to delete the code
ExchangeCodeKeepingCode(st, code, client_id, accessToken, newRefreshToken) ==
    LET authCode == st.authorizationCodes[code]
    IN  [ st EXCEPT
            !.accessTokens =
                MapSet(@, accessToken,
                       [ userId |-> authCode.userId, clientId |-> client_id,
                         scopes |-> authCode.scopes,
                         expiresAt |-> st.now + ExpiresIn * 1000 ]),
            !.refreshTokens =
                MapSet(@, newRefreshToken,
                       [ userId |-> authCode.userId, clientId |-> client_id,
                         scopes |-> authCode.scopes ]),
            !.issued.access = @ + 1,
            !.issued.refresh = @ + 1 ]

\* accessTokens.set, refreshTokens.set and authorizationCodes.delete of the exchange
ExchangeCode(st, code, client_id, accessToken, newRefreshToken) ==
    LET authCode == st.authorizationCodes[code]
    IN  [ st EXCEPT
            !.accessTokens =
                MapSet(@, accessToken,
                       [ userId |-> authCode.userId, clientId |-> client_id,
                         scopes |-> authCode.scopes,
                         expiresAt |-> st.now + ExpiresIn * 1000 ]),
            !.refreshTokens =
                MapSet(@, newRefreshToken,
                       [ userId |-> authCode.userId, clientId |-> client_id,
                         scopes |-> authCode.scopes ]),
            !.authorizationCodes = MapDelete(@, code),
            !.issued.access = @ + 1,
            !.issued.refresh = @ + 1 ]

\* a refresh that revokes the refresh token it was given
RefreshAccessRevoking(st, refresh_token, client_id, accessToken) ==
    LET refreshTokenData == st.refreshTokens[refresh_token]
    IN  [ st EXCEPT
            !.accessTokens =
                MapSet(@, accessToken,
                       [ userId |-> refreshTokenData.userId, clientId |-> client_id,
                         scopes |-> refreshTokenData.scopes,
                         expiresAt |-> st.now + ExpiresIn * 1000 ]),
            !.refreshTokens = MapDelete(@, refresh_token),
            !.issued.access = @ + 1 ]

\* accessTokens.set of the refresh_token grant
RefreshAccess(st, refresh_token, client_id, accessToken) ==
    LET refreshTokenData == st.refreshTokens[refresh_token]
    IN  [ st EXCEPT
            !.accessTokens =
                MapSet(@, accessToken,
                       [ userId |-> refreshTokenData.userId, clientId |-> client_id,
                         scopes |-> refreshTokenData.scopes,
                         expiresAt |-> st.now + ExpiresIn * 1000 ]),
            !.issued.access = @ + 1 ]

\* a lookup that accepts a stored refresh token from any client
RefreshTokenOfAnyClient(st, refresh_token, client_id) ==
    refresh_token \in DOMAIN st.refreshTokens

\* refreshTokenData && refreshTokenData.clientId === client_id
RefreshTokenBound(st, refresh_token, client_id) ==
    /\ refresh_token \in DOMAIN st.refreshTokens
    /\ st.refreshTokens[refresh_token].clientId = client_id

\* res.status(status).json({ error })
TokenError(status, error) ==
    [ status |-> status, error |-> error, redirect |-> "", access_token |-> Undefined,
      refresh_token |-> Undefined, token_type |-> Undefined, expires_in |-> 0,
      scope |-> NoScope ]

\* an else branch that also revokes the access tokens
UnsupportedGrantRevoking(st) ==
    [ resp |-> TokenError(400, "unsupported_grant_type"),
      st |-> [ st EXCEPT !.accessTokens = EmptyMap ] ]

\* the else branch: a grant_type that is neither authorization_code nor refresh_token
UnsupportedGrant(st) ==
    [ resp |-> TokenError(400, "unsupported_grant_type"), st |-> st ]

\* a success response that hands out no refresh token
CodeGrantJsonWithoutRefresh(accessToken, newRefreshToken, scopes) ==
    [ status |-> 200, error |-> "", redirect |-> "", access_token |-> accessToken,
      refresh_token |-> Undefined, token_type |-> "Bearer", expires_in |-> ExpiresIn,
      scope |-> Join(scopes, " ") ]

\* res.json({ access_token, refresh_token, token_type, expires_in, scope }) of the
\* authorization_code grant
CodeGrantJson(accessToken, newRefreshToken, scopes) ==
    [ status |-> 200, error |-> "", redirect |-> "", access_token |-> accessToken,
      refresh_token |-> newRefreshToken, token_type |-> "Bearer",
      expires_in |-> ExpiresIn, scope |-> Join(scopes, " ") ]

\* an answer that reports only the first scope
RefreshGrantJsonFirstScope(accessToken, scopes) ==
    [ status |-> 200, error |-> "", redirect |-> "", access_token |-> accessToken,
      refresh_token |-> Undefined, token_type |-> "Bearer", expires_in |-> ExpiresIn,
      scope |-> IF scopes = << >> THEN << >> ELSE scopes[1] ]

\* res.json({ access_token, token_type, expires_in, scope }) of the refresh_token grant
RefreshGrantJson(accessToken, scopes) ==
    [ status |-> 200, error |-> "", redirect |-> "", access_token |-> accessToken,
      refresh_token |-> Undefined, token_type |-> "Bearer", expires_in |-> ExpiresIn,
      scope |-> Join(scopes, " ") ]

\* a refusal that deletes the code it refuses
RefuseUnboundBurning(st, code) ==
    [ resp |-> TokenError(400, "invalid_grant"),
      st |-> [ st EXCEPT !.authorizationCodes = MapDelete(@, code) ] ]

\* the answer to a code presented by another client or with another redirect_uri
RefuseUnbound(st, code) ==
    [ resp |-> TokenError(400, "invalid_grant"), st |-> st ]

TokenHandler(st, grant_type, code, redirect_uri, client_id, client_secret, refresh_token) ==
    LET accessToken == RandomHex("a", st.issued.access + 1)
        newRefreshToken == RandomHex("r", st.issued.refresh + 1)
    IN  IF ~ ValidClient(client_id, client_secret)
        THEN [ resp |-> TokenError(401, "invalid_client"), st |-> st ]
        ELSE IF grant_type = "authorization_code"
        THEN IF code \notin DOMAIN st.authorizationCodes
             THEN [ resp |-> TokenError(400, "invalid_grant"), st |-> st ]
             ELSE IF CodeExpired(st, st.authorizationCodes[code])
             THEN [ resp |-> TokenError(400, "invalid_grant"),
                    st |-> DropExpiredCode(st, code) ]
             ELSE IF ~ CodeBound(st.authorizationCodes[code], client_id, redirect_uri)
             THEN RefuseUnbound(st, code)
             ELSE [ resp |-> CodeGrantJson(accessToken, newRefreshToken,
                                           st.authorizationCodes[code].scopes),
                    st |-> ExchangeCode(st, code, client_id, accessToken,
                                        newRefreshToken) ]
        ELSE IF grant_type = "refresh_token"
        THEN IF ~ RefreshTokenBound(st, refresh_token, client_id)
             THEN [ resp |-> TokenError(400, "invalid_grant"), st |-> st ]
             ELSE [ resp |-> RefreshGrantJson(accessToken,
                                              st.refreshTokens[refresh_token].scopes),
                    st |-> RefreshAccess(st, refresh_token, client_id, accessToken) ]
        ELSE UnsupportedGrant(st)

Token(grant_type, code, redirect_uri, client_id, client_secret, refresh_token) ==
    Apply(TokenHandler(Cur, grant_type, code, redirect_uri, client_id, client_secret,
                       refresh_token))

(* ------------- Bearer validator and GET /api/user --------------------- *)
\* authenticateToken; next is the call of the resource handler, which answers
\* with the userId and the scopes of req.tokenData
\* Date.now() > tokenData.expiresAt
\* a validator that rejects the token from its expiry time on
TokenExpiredAtExpiry(st, tokenData) == st.now >= tokenData.expiresAt

TokenExpired(st, tokenData) == st.now > tokenData.expiresAt

\* a validator that leaves the expired token in the store
KeepToken(st, token) == st

\* accessTokens.delete(token)
EvictToken(st, token) == [ st EXCEPT !.accessTokens = MapDelete(@, token) ]

ApiUserHandler(st, authHeader) ==
    LET token == TokenOf(authHeader)
        R(status, error, next, tokenData) ==
            [ status |-> status, error |-> error, redirect |-> "", next |-> next,
              tokenData |-> tokenData ]
    IN  IF token = Undefined
        THEN [ resp |-> R(401, "missing_token", FALSE, << >>), st |-> st ]
        ELSE IF token \notin DOMAIN st.accessTokens
        THEN [ resp |-> R(401, "invalid_token", FALSE, << >>), st |-> st ]
        ELSE IF TokenExpired(st, st.accessTokens[token])
        THEN [ resp |-> R(401, "token_expired", FALSE, << >>),
               st |-> EvictToken(st, token) ]
        ELSE [ resp |-> R(200, "", TRUE, << st.accessTokens[token] >>), st |-> st ]

ApiUser(authHeader) == Apply(ApiUserHandler(Cur, authHeader))

(* ----------------------------- specification -------------------------- *)
(* The requests the behaviours are built from.  A rejected request leaves *)
(* the state as it is, so one request stands for each rejection; the      *)
(* properties below range over all inputs of a handler in each state.     *)
AuthorizeQueries ==
    { [ response_type |-> "code", client_id |-> RegisteredClient,
        redirect_uri |-> RegisteredUri, scope |-> << "read", " ", "write" >>,
        state |-> << "xyz" >> ],
      [ response_type |-> "token", client_id |-> RegisteredClient,
        redirect_uri |-> RegisteredUri, scope |-> NoScope, state |-> NoState ],
      [ response_type |-> "code", client_id |-> "evil-client",
        redirect_uri |-> RegisteredUri, scope |-> NoScope, state |-> NoState ],
      [ response_type |-> "code", client_id |-> RegisteredClient,
        redirect_uri |-> "https://evil.example/cb", scope |-> NoScope,
        state |-> NoState ] }

ConsentBodies ==
    { [ action |-> "approve", client_id |-> RegisteredClient,
        redirect_uri |-> RegisteredUri, scope |-> sc, state |-> << "xyz" >> ] :
        sc \in { << "read" >>, << "read", " ", "write" >> } }
      \cup { [ action |-> "approve", client_id |-> RegisteredClient,
               redirect_uri |-> "https://evil.example/cb", scope |-> NoScope,
               state |-> << "xyz" >> ] }
      \cup { [ action |-> a, client_id |-> RegisteredClient,
               redirect_uri |-> RegisteredUri, scope |-> NoScope, state |-> << "xyz" >> ] :
               a \in { "deny", "other" } }

\* the body fields a grant does not read are undefined
TokenBodies ==
    { [ grant_type |-> "authorization_code", code |-> k, redirect_uri |-> u,
        client_id |-> RegisteredClient, client_secret |-> RegisteredSecret,
        refresh_token |-> Undefined ] :
        k \in CodeKeys, u \in { RegisteredUri, "https://evil.example/cb" } }
      \cup { [ grant_type |-> "refresh_token", code |-> Undefined,
               redirect_uri |-> Undefined, client_id |-> RegisteredClient,
               client_secret |-> RegisteredSecret, refresh_token |-> k ] :
               k \in RefreshKeys }
      \cup { [ grant_type |-> "password", code |-> Undefined, redirect_uri |-> Undefined,
               client_id |-> c, client_secret |-> sec, refresh_token |-> Undefined ] :
               c \in ClientIds \ {Undefined}, sec \in Secrets \ {Undefined} }

Next ==
    \/ Tick
    \/ \E s \in Sessions, u \in Users \cup {Undefined} : OAuthRedirect(s, u)
    \/ \E s \in Sessions, q \in AuthorizeQueries :
          AuthorizeGet(s, q.response_type, q.client_id, q.redirect_uri, q.scope, q.state)
    \/ \E s \in Sessions, b \in ConsentBodies :
          AuthorizePost(s, b.action, b.client_id, b.redirect_uri, b.scope, b.state)
    \/ \E b \in TokenBodies :
          Token(b.grant_type, b.code, b.redirect_uri, b.client_id, b.client_secret,
                b.refresh_token)
    \/ \E h \in HeaderInputs : ApiUser(h)
    \/ \E s \in Sessions, refreshed \in BOOLEAN : Home(s, refreshed)
    \/ \E s \in Sessions : Unmatched(s)

Spec == Init /\ [][Next]_vars

(* ------------------------- the browser's flow ------------------------- *)
(* The requests of a browser, with the redirect or the page each answer   *)
(* leaves it with.  A browser follows a redirect to this server: that is  *)
(* the one step the flow can rely on.                                     *)
BrowserSignIn(s, u) ==
    LET h == OAuthRedirectHandler(Cur, s, u)
    IN  Visit(s, h, << h.resp.redirect >>, "")

BrowserAuthorize(s, response_type, client_id, redirect_uri, scope, state) ==
    LET h == AuthorizeGetHandler(Cur, s, response_type, client_id, redirect_uri, scope,
                                 state)
    IN  Visit(s, h, IF h.resp.redirect # "" THEN << h.resp.redirect >> ELSE << >>,
              IF h.resp.consent THEN "consent" ELSE "")

\* the redirect of deny and approve leaves this server for the client's site
BrowserConsent(s, action, client_id, redirect_uri, scope, state) ==
    Visit(s, AuthorizePostHandler(Cur, s, action, client_id, redirect_uri, scope, state),
          << >>, "")

BrowserHome(s, refreshed) ==
    LET h == HomeHandler(Cur, s, refreshed)
    IN  Visit(s, h, IF h.resp.redirect # "" THEN << h.resp.redirect >> ELSE << >>,
              h.resp.page)

BrowserUnmatched(s) ==
    LET h == UnmatchedHandler(Cur, s)
    IN  Visit(s, h, h.resp.url, "")

\* the browser requests the URL it was redirected to; /oauthSignin goes through the
\* upstream provider and comes back at /oauthRedirect
FollowRedirect(s) ==
    LET url == browser[s].location
    IN  /\ url # << >>
        /\ \/ /\ url[1] = "/"
              /\ \E refreshed \in BOOLEAN : BrowserHome(s, refreshed)
           \/ /\ url[1] = "/oauthSignin"
              /\ \E u \in Users \cup { Undefined } : BrowserSignIn(s, u)
           \/ /\ url[1] = "/grantDenied"
              /\ Visit(s, [ st |-> Cur ], << >>, "grantDenied")
           \/ /\ url[1] = "/oauth/authorize"
              /\ \E response_type \in { SearchParam(url, "response_type") },
                    client_id \in { SearchParam(url, "client_id") },
                    redirect_uri \in { SearchParam(url, "redirect_uri") },
                    scope \in { SearchParam(url, "scope") },
                    state \in { SearchParam(url, "state") } :
                    BrowserAuthorize(s, response_type[1], client_id[1], redirect_uri[1],
                                     scope, state)

\* the queries a browser sends: also a valid one without scope and state, and one
\* whose state holds a query delimiter
FlowQueries ==
    AuthorizeQueries
      \cup { [ response_type |-> "code", client_id |-> RegisteredClient,
               redirect_uri |-> RegisteredUri, scope |-> sc, state |-> state ] :
               sc \in { NoScope, << "read" >> },
               state \in { NoState, << "a", "&", "b" >> } }

\* a browser follows a redirect before any other request; at rest it may request
\* anything
AtRest(s) == browser[s].location = << >>

FlowNext ==
    \/ \E s \in Sessions, u \in Users \cup { Undefined } :
          AtRest(s) /\ BrowserSignIn(s, u)
    \/ \E s \in Sessions, q \in FlowQueries :
          /\ AtRest(s)
          /\ BrowserAuthorize(s, q.response_type, q.client_id, q.redirect_uri, q.scope,
                              q.state)
    \/ \E s \in Sessions, b \in ConsentBodies :
          /\ AtRest(s)
          /\ BrowserConsent(s, b.action, b.client_id, b.redirect_uri, b.scope, b.state)
    \/ \E s \in Sessions, refreshed \in BOOLEAN : AtRest(s) /\ BrowserHome(s, refreshed)
    \/ \E s \in Sessions : AtRest(s) /\ BrowserUnmatched(s)
    \/ \E s \in Sessions : FollowRedirect(s)

FlowSpec ==
    Init /\ [][FlowNext]_vars /\ \A s \in Sessions : WF_vars(FollowRedirect(s))

(* ------------------------------ properties ---------------------------- *)
\* POST /oauth/token with grant_type=authorization_code
CodeGrant(st, code, redirect_uri, client_id, client_secret) ==
    TokenHandler(st, "authorization_code", code, redirect_uri, client_id, client_secret,
                 Undefined)

\* POST /oauth/token with grant_type=refresh_token
RefreshGrant(st, refresh_token, client_id, client_secret) ==
    TokenHandler(st, "refresh_token", Undefined, Undefined, client_id, client_secret,
                 refresh_token)

\* the handler outcome h, computed in state st, created no token
NoTokenMinted(st, h) ==
    /\ h.st.accessTokens = st.accessTokens
    /\ h.st.refreshTokens = st.refreshTokens

\* the codes handed out so far
IssuedCodes(st) == { RandomHex("c", i) : i \in 1 .. st.issued.code }

\* a code that was handed out and is no longer in the code store
Spent(st, c) == c \in IssuedCodes(st) /\ c \notin DOMAIN st.authorizationCodes

\* an exchange of code c with valid client credentials is answered 400 invalid_grant
\* and mints nothing
ExchangeRefused(st, c) ==
    \A u \in RedirectUris, cid \in ClientIds, sec \in Secrets :
        ValidClient(cid, sec) =>
            LET h == CodeGrant(st, c, u, cid, sec)
            IN  /\ h.resp.status = 400
                /\ h.resp.error = "invalid_grant"
                /\ NoTokenMinted(st, h)

C1State ==
    \A c \in CodeKeys :
        /\ \A u \in RedirectUris, cid \in ClientIds, sec \in Secrets :
              LET h == CodeGrant(Cur, c, u, cid, sec)
              IN  h.resp.status = 200 =>
                      /\ c \in DOMAIN authorizationCodes
                      /\ Spent(h.st, c)
                      /\ ExchangeRefused(h.st, c)
        /\ Spent(Cur, c) => ExchangeRefused(Cur, c)

C1Step == \A c \in CodeKeys : Spent(Cur, c) => Spent(Cur, c)'

\* C1: a successful exchange of a code removes it from the code store; a code that
\* has left the store never comes back, and every exchange that presents it (with
\* valid client credentials) is answered 400 invalid_grant and mints no token.
SingleUseOfCodes == [] C1State /\ [][C1Step]_vars

\* a code was exchanged, and presenting it again with the right credentials and
\* redirect_uri is refused
SingleUseWitness ==
    /\ DOMAIN refreshTokens # {}
    /\ \E c \in CodeKeys :
          /\ Spent(Cur, c)
          /\ CodeGrant(Cur, c, RegisteredUri, RegisteredClient,
                       RegisteredSecret).resp.error = "invalid_grant"

\* an answer that redirects the browser to a redirect_uri that is not registered for
\* the client the request names
RedirectsOutside(resp, client_id) ==
    /\ resp.status = 302
    /\ resp.redirect \in RedirectUris
    /\ ~ ( /\ client_id \in DOMAIN clients
           /\ Includes(clients[client_id].redirectUris, resp.redirect) )

\* C2: no request to GET or POST /oauth/authorize is answered with a redirect to a
\* redirect_uri outside the redirectUris of a registered client named by client_id.
NoOpenRedirect ==
    \A s \in Sessions, cid \in ClientIds, u \in RedirectUris, sc \in ScopeInputs,
       state \in StateInputs :
        /\ \A rt \in ResponseTypes :
              ~ RedirectsOutside(AuthorizeGetHandler(Cur, s, rt, cid, u, sc, state).resp,
                                 cid)
        /\ \A a \in Actions :
              ~ RedirectsOutside(AuthorizePostHandler(Cur, s, a, cid, u, sc, state).resp,
                                 cid)

\* C3: every stored authorization code names a registered client and one of that
\* client's redirect URIs.
CodesBoundToRegisteredClient ==
    \A c \in DOMAIN authorizationCodes :
        /\ authorizationCodes[c].clientId \in DOMAIN clients
        /\ Includes(clients[authorizationCodes[c].clientId].redirectUris,
                    authorizationCodes[c].redirectUri)

\* C4: an authorization_code request with valid client credentials for a stored,
\* unexpired code, whose redirect_uri or client_id differs from the code's, is
\* answered 400 invalid_grant and creates no access token and no refresh token.
MismatchIsRefused ==
    \A c \in DOMAIN authorizationCodes, u \in RedirectUris, cid \in ClientIds,
       sec \in Secrets :
        ( /\ ValidClient(cid, sec)
          /\ now <= authorizationCodes[c].expiresAt
          /\ \/ u # authorizationCodes[c].redirectUri
             \/ cid # authorizationCodes[c].clientId )
        => LET h == CodeGrant(Cur, c, u, cid, sec)
           IN  /\ h.resp.status = 400
               /\ h.resp.error = "invalid_grant"
               /\ NoTokenMinted(Cur, h)

\* an unexpired code of the registered client is presented by that client with
\* another redirect_uri
MismatchWitness ==
    \E c \in DOMAIN authorizationCodes :
        /\ now <= authorizationCodes[c].expiresAt
        /\ authorizationCodes[c].clientId = RegisteredClient
        /\ authorizationCodes[c].redirectUri = RegisteredUri
        /\ CodeGrant(Cur, c, "https://evil.example/cb", RegisteredClient,
                     RegisteredSecret).resp.error = "invalid_grant"

\* C5: a code expires 10 minutes after the approval; an authorization_code request
\* (valid client credentials) that presents a stored code after that time is
\* answered 400 invalid_grant, mints no token, and the code is gone afterwards.
ExpiredCodeIsRefusedAndRemoved ==
    /\ \A s \in Sessions, cid \in ClientIds, u \in RedirectUris, sc \in ScopeInputs :
          sessions[s].user # Undefined =>
              LET h == AuthorizePostHandler(Cur, s, "approve", cid, u, sc, NoState)
              IN  h.st.authorizationCodes[RandomHex("c", issued.code + 1)].expiresAt
                      = now + 600000
    /\ \A c \in DOMAIN authorizationCodes, u \in RedirectUris, cid \in ClientIds,
          sec \in Secrets :
          ( ValidClient(cid, sec) /\ now > authorizationCodes[c].expiresAt )
          => LET h == CodeGrant(Cur, c, u, cid, sec)
             IN  /\ h.resp.status = 400
                 /\ h.resp.error = "invalid_grant"
                 /\ NoTokenMinted(Cur, h)
                 /\ c \notin DOMAIN h.st.authorizationCodes

\* a code of the registered client is presented by that client after its expiry
ExpiredCodeWitness ==
    \E c \in DOMAIN authorizationCodes :
        /\ now > authorizationCodes[c].expiresAt
        /\ authorizationCodes[c].clientId = RegisteredClient
        /\ authorizationCodes[c].redirectUri = RegisteredUri
        /\ CodeGrant(Cur, c, RegisteredUri, RegisteredClient,
                     RegisteredSecret).resp.error = "invalid_grant"

\* C6: no exchange of a code succeeds when the clock has reached the code's
\* expiresAt (now >= expiresAt).
RedeemableOnlyBeforeExpiry ==
    \A c \in DOMAIN authorizationCodes, u \in RedirectUris, cid \in ClientIds,
       sec \in Secrets :
        now >= authorizationCodes[c].expiresAt
        => CodeGrant(Cur, c, u, cid, sec).resp.status # 200

\* C7: a successful refresh_token exchange returns no refresh_token, its scope and
\* the scopes of the access token it mints are the scopes stored with the refresh
\* token, and a refresh token is created with the scopes of the exchanged code.
RefreshPreservesScopes ==
    /\ \A rt \in DOMAIN refreshTokens, cid \in ClientIds, sec \in Secrets :
          LET h == RefreshGrant(Cur, rt, cid, sec)
          IN  h.resp.status = 200 =>
                  /\ h.resp.refresh_token = Undefined
                  /\ ScopesOf(h.resp.scope) = refreshTokens[rt].scopes
                  /\ h.st.accessTokens[h.resp.access_token].scopes
                         = refreshTokens[rt].scopes
    /\ \A c \in DOMAIN authorizationCodes, u \in RedirectUris, cid \in ClientIds,
          sec \in Secrets :
          LET h == CodeGrant(Cur, c, u, cid, sec)
          IN  h.resp.status = 200 =>
                  /\ h.st.refreshTokens[h.resp.refresh_token].scopes
                         = authorizationCodes[c].scopes
                  /\ ScopesOf(RefreshGrant(h.st, h.resp.refresh_token, cid,
                                           sec).resp.scope)
                         = authorizationCodes[c].scopes

\* a refresh token with two scopes has been used for a refresh and can be used again
RefreshScopesWitness ==
    /\ issued.access > issued.refresh
    /\ \E rt \in DOMAIN refreshTokens :
          /\ Len(refreshTokens[rt].scopes) = 2
          /\ RefreshGrant(Cur, rt, RegisteredClient, RegisteredSecret).resp.status = 200

C8State ==
    \A rt \in DOMAIN refreshTokens, cid \in ClientIds, sec \in Secrets :
        LET h == RefreshGrant(Cur, rt, cid, sec)
        IN  h.resp.status = 200 =>
                /\ h.st.refreshTokens = refreshTokens
                /\ h.st.authorizationCodes = authorizationCodes
                /\ h.resp.access_token \notin DOMAIN accessTokens
                /\ DOMAIN h.st.accessTokens
                       = DOMAIN accessTokens \cup { h.resp.access_token }
                /\ \A t \in DOMAIN accessTokens : h.st.accessTokens[t] = accessTokens[t]
                /\ RefreshGrant(h.st, rt, cid, sec).resp.status = 200

C8Step ==
    \A rt \in DOMAIN refreshTokens :
        /\ rt \in DOMAIN refreshTokens'
        /\ refreshTokens'[rt] = refreshTokens[rt]

\* C8: a successful refresh_token exchange leaves the refresh-token store and the
\* code store as they are, adds exactly one new access token, and the same refresh
\* token succeeds again; no step removes or changes a stored refresh token.
RefreshTokenIsNotRotated == [] C8State /\ [][C8Step]_vars

\* a refresh token was used and is still good for another exchange
NotRotatedWitness ==
    /\ issued.access >= issued.refresh + 1
    /\ DOMAIN authorizationCodes = {}
    /\ \E rt \in DOMAIN refreshTokens :
          RefreshGrant(Cur, rt, RegisteredClient, RegisteredSecret).resp.status = 200

\* the access tokens handed out so far
IssuedAccessTokens(st) == { RandomHex("a", i) : i \in 1 .. st.issued.access }

\* C9: a request to a protected resource with a stored access token whose expiresAt
\* has passed is answered 401 token_expired without reaching the resource handler,
\* the token is removed, and the same request again is answered 401 invalid_token.
ExpiredTokenIsEvicted ==
    \A t \in DOMAIN accessTokens :
        now > accessTokens[t].expiresAt =>
            LET h == ApiUserHandler(Cur, << "Bearer", " ", t >>)
                again == ApiUserHandler(h.st, << "Bearer", " ", t >>)
            IN  /\ h.resp.status = 401
                /\ h.resp.error = "token_expired"
                /\ ~ h.resp.next
                /\ t \notin DOMAIN h.st.accessTokens
                /\ again.resp.status = 401
                /\ again.resp.error = "invalid_token"
                /\ ~ again.resp.next

\* an access token was evicted after its expiry, and presenting it is answered
\* invalid_token
EvictedTokenWitness ==
    \E t \in IssuedAccessTokens(Cur) :
        /\ t \notin DOMAIN accessTokens
        /\ ApiUserHandler(Cur, << "Bearer", " ", t >>).resp.error = "invalid_token"

\* C10: GET /oauth/authorize with response_type=code and a client_id that is not
\* registered is answered 400 invalid_client, without a redirect, whatever the
\* redirect_uri, and changes neither the session nor a store.
UnknownClientIsRejected ==
    \A s \in Sessions, cid \in ClientIds \ DOMAIN clients, u \in RedirectUris,
       sc \in ScopeInputs, state \in StateInputs :
        LET h == AuthorizeGetHandler(Cur, s, "code", cid, u, sc, state)
        IN  /\ h.resp.status = 400
            /\ h.resp.error = "invalid_client"
            /\ h.resp.redirect = ""
            /\ ~ h.resp.consent
            /\ h.st = Cur

\* a signed-in session with a code in the store asks for an unknown client
UnknownClientWitness ==
    \E s \in Sessions :
        /\ sessions[s].user # Undefined
        /\ DOMAIN authorizationCodes # {}
        /\ AuthorizeGetHandler(Cur, s, "code", "evil-client", "https://evil.example/cb",
                               NoScope, NoState).resp.error = "invalid_client"

\* the state st when Date.now() has advanced by d
Later(st, d) == [ st EXCEPT !.now = @ + d ]

\* times elapsed between the approval and the exchange that are before the expiry
ElapsedBeforeExpiry == { 0, 1, CodeTTL - 1 }

\* C11: when a signed-in principal approves scope "read" for the registered client
\* and its registered redirect URI, a code is issued; exchanging it with the client
\* secret and the same redirect_uri before the expiry answers token_type Bearer,
\* scope "read", expires_in 3600, an access token and a refresh token; and the
\* access token resolves at the Bearer validator to the approving user with scopes
\* ["read"].
EndToEndGrant ==
    \A s \in Sessions, state \in StateInputs, d \in ElapsedBeforeExpiry :
        sessions[s].user # Undefined =>
            LET h1 == AuthorizePostHandler(Cur, s, "approve", RegisteredClient,
                                           RegisteredUri, << "read" >>, state)
                h2 == CodeGrant(Later(h1.st, d), h1.resp.code, RegisteredUri,
                                RegisteredClient, RegisteredSecret)
                h3 == ApiUserHandler(h2.st, << "Bearer", " ", h2.resp.access_token >>)
            IN  /\ h1.resp.status = 302
                /\ h1.resp.redirect = RegisteredUri
                /\ h1.resp.code \in DOMAIN h1.st.authorizationCodes
                /\ h2.resp.status = 200
                /\ h2.resp.token_type = "Bearer"
                /\ h2.resp.scope = << "read" >>
                /\ h2.resp.expires_in = 3600
                /\ h2.resp.access_token # Undefined
                /\ h2.resp.refresh_token # Undefined
                /\ h2.resp.refresh_token \in DOMAIN h2.st.refreshTokens
                /\ h3.resp.status = 200
                /\ h3.resp.next
                /\ h3.resp.tokenData[1].userId = sessions[s].user
                /\ h3.resp.tokenData[1].scopes = << << "read" >> >>

\* scope "read" was approved for the registered client, the code was exchanged, and
\* the access token resolves to the user with scopes ["read"]
EndToEndWitness ==
    \E t \in DOMAIN accessTokens, s \in Sessions :
        /\ DOMAIN authorizationCodes = {}
        /\ DOMAIN refreshTokens # {}
        /\ accessTokens[t].clientId = RegisteredClient
        /\ accessTokens[t].scopes = << << "read" >> >>
        /\ accessTokens[t].userId = sessions[s].user
        /\ ApiUserHandler(Cur, << "Bearer", " ", t >>).resp.next

\* C12: when a signed-in principal submits action=deny, the answer is a redirect
\* whose URL carries error=access_denied and the submitted state value unchanged,
\* and no store changes.
DenyCarriesState ==
    \A s \in Sessions, cid \in ClientIds, u \in RedirectUris, sc \in ScopeInputs,
       state \in StateInputs \ { NoState } :
        sessions[s].user # Undefined =>
            LET h == AuthorizePostHandler(Cur, s, "deny", cid, u, sc, state)
            IN  /\ h.resp.status = 302
                /\ SearchParam(h.resp.url, "error") = << "access_denied" >>
                /\ SearchParam(h.resp.url, "state") = state
                /\ h.st = Cur

\* the codes and refresh tokens a request can present: issued ones, none, unknown
CodeInputs == CodeKeys \cup { Undefined, "c-unknown" }
RefreshInputs == RefreshKeys \cup { Undefined, "r-unknown" }

\* every body of POST /oauth/token; the fields a grant does not read are undefined
TokenRequests ==
    { [ grant_type |-> "authorization_code", code |-> k, redirect_uri |-> u,
        client_id |-> c, client_secret |-> sec, refresh_token |-> Undefined ] :
        k \in CodeInputs, u \in RedirectUris, c \in ClientIds, sec \in Secrets }
      \cup { [ grant_type |-> "refresh_token", code |-> Undefined,
               redirect_uri |-> Undefined, client_id |-> c, client_secret |-> sec,
               refresh_token |-> k ] :
               k \in RefreshInputs, c \in ClientIds, sec \in Secrets }
      \cup { [ grant_type |-> "password", code |-> k, redirect_uri |-> Undefined,
               client_id |-> c, client_secret |-> sec, refresh_token |-> Undefined ] :
               k \in CodeInputs, c \in ClientIds, sec \in Secrets }

\* the answer of POST /oauth/token to the body b in state st
TokenAnswer(st, b) ==
    TokenHandler(st, b.grant_type, b.code, b.redirect_uri, b.client_id,
                 b.client_secret, b.refresh_token)

\* C13: POST /oauth/token with an unregistered client_id or with a client_secret
\* that is not the registered one is answered 401 invalid_client for every
\* grant_type, and no store changes: a valid code presented so is not consumed.
BadCredentialsAreRefused ==
    \A b \in TokenRequests :
        ( \/ b.client_id \notin DOMAIN clients
          \/ b.client_secret # RegisteredSecret )
        => LET h == TokenAnswer(Cur, b)
           IN  /\ h.resp.status = 401
               /\ h.resp.error = "invalid_client"
               /\ h.st = Cur

\* an unexpired code of the registered client is presented with its redirect_uri
\* and a wrong secret, and stays in the store
BadCredentialsWitness ==
    \E c \in DOMAIN authorizationCodes :
        /\ now < authorizationCodes[c].expiresAt
        /\ authorizationCodes[c].clientId = RegisteredClient
        /\ authorizationCodes[c].redirectUri = RegisteredUri
        /\ LET h == CodeGrant(Cur, c, RegisteredUri, RegisteredClient, "wrong-secret")
           IN  /\ h.resp.error = "invalid_client"
               /\ c \in DOMAIN h.st.authorizationCodes

\* C14: every POST /oauth/token request that is answered invalid_grant leaves the
\* access-token store and the refresh-token store as they were.
InvalidGrantIssuesNothing ==
    \A b \in TokenRequests :
        LET h == TokenAnswer(Cur, b)
        IN  h.resp.error = "invalid_grant" => NoTokenMinted(Cur, h)

\* with tokens in both stores, a consumed code and an unknown refresh token are
\* each answered invalid_grant
InvalidGrantWitness ==
    /\ DOMAIN accessTokens # {}
    /\ \E c \in IssuedCodes(Cur) :
          /\ c \notin DOMAIN authorizationCodes
          /\ CodeGrant(Cur, c, RegisteredUri, RegisteredClient,
                       RegisteredSecret).resp.error = "invalid_grant"
    /\ DOMAIN refreshTokens # {}
    /\ RefreshGrant(Cur, "r-unknown", RegisteredClient,
                    RegisteredSecret).resp.error = "invalid_grant"

\* the state st with a refresh token of another client in the store
WithForeignRefreshToken(st, rt, user) ==
    [ st EXCEPT !.refreshTokens =
        MapSet(@, rt, [ userId |-> user, clientId |-> "evil-client", scopes |-> << >> ]) ]

\* C15: a refresh_token request with valid client credentials is answered 400
\* invalid_grant when the refresh token is not in the store, or when the stored
\* clientId differs from the request's client_id.
BadRefreshTokenIsRefused ==
    /\ \A rt \in RefreshInputs, cid \in ClientIds, sec \in Secrets :
          ( /\ ValidClient(cid, sec)
            /\ \/ rt \notin DOMAIN refreshTokens
               \/ refreshTokens[rt].clientId # cid )
          => LET h == RefreshGrant(Cur, rt, cid, sec)
             IN  /\ h.resp.status = 400
                 /\ h.resp.error = "invalid_grant"
                 /\ h.st = Cur
    /\ \A u \in Users :
          LET st == WithForeignRefreshToken(Cur, "r-foreign", u)
              h == RefreshGrant(st, "r-foreign", RegisteredClient, RegisteredSecret)
          IN  /\ h.resp.status = 400
              /\ h.resp.error = "invalid_grant"
              /\ h.st = st

\* with a refresh token in the store, another one that is not stored is presented
\* by the registered client
BadRefreshTokenWitness ==
    /\ \E rt \in DOMAIN refreshTokens :
          RefreshGrant(Cur, rt, RegisteredClient, RegisteredSecret).resp.status = 200
    /\ \E rt \in RefreshInputs \ DOMAIN refreshTokens :
          /\ rt # Undefined
          /\ RefreshGrant(Cur, rt, RegisteredClient,
                          RegisteredSecret).resp.error = "invalid_grant"

\* C16: POST /oauth/token with valid client credentials and a grant_type other than
\* authorization_code and refresh_token is answered 400 unsupported_grant_type and
\* changes no store.
UnsupportedGrantIsRefused ==
    \A gt \in GrantTypes \cup { Undefined }, k \in CodeInputs, rt \in RefreshInputs,
       u \in RedirectUris :
        gt \notin { "authorization_code", "refresh_token" } =>
            LET h == TokenHandler(Cur, gt, k, u, RegisteredClient, RegisteredSecret, rt)
            IN  /\ h.resp.status = 400
                /\ h.resp.error = "unsupported_grant_type"
                /\ h.st = Cur

\* with a code, or tokens, in the stores the registered client asks for the
\* password grant and names a stored code or refresh token
UnsupportedGrantWitness ==
    /\ \/ DOMAIN authorizationCodes # {}
       \/ DOMAIN accessTokens # {}
    /\ \E k \in DOMAIN authorizationCodes \cup { Undefined },
          rt \in DOMAIN refreshTokens \cup { Undefined } :
          /\ k # Undefined \/ rt # Undefined
          /\ TokenHandler(Cur, "password", k, RegisteredUri, RegisteredClient,
                          RegisteredSecret, rt).resp.error = "unsupported_grant_type"

\* the errors GET /oauth/authorize rejects a request with
AuthorizeErrors == { "unsupported_response_type", "invalid_client", "invalid_redirect_uri" }

\* C17: a GET /oauth/authorize request rejected with unsupported_response_type,
\* invalid_client or invalid_redirect_uri changes nothing: the pending authorization
\* of the session and the three stores are as before, signed in or not.
RejectedAuthorizeChangesNothing ==
    \A s \in Sessions, rt \in ResponseTypes \cup { Undefined }, cid \in ClientIds,
       u \in RedirectUris, sc \in { NoScope, << "read", " ", "write" >> },
       state \in { NoState, << "a", "&", "b" >> } :
        LET h == AuthorizeGetHandler(Cur, s, rt, cid, u, sc, state)
        IN  /\ h.resp.error \in AuthorizeErrors =>
                  /\ h.resp.status = 400
                  /\ h.st = Cur
            /\ AuthorizeRejection(rt, cid, u) # "" =>
                  h.resp.error = AuthorizeRejection(rt, cid, u)

\* a signed-out session that has a pending authorization sends a request with an
\* unregistered redirect_uri, and one with another response_type
RejectedAuthorizeWitness ==
    \E s \in Sessions :
        /\ sessions[s].user = Undefined
        /\ sessions[s].pendingOAuth # << >>
        /\ AuthorizeGetHandler(Cur, s, "code", RegisteredClient,
                               "https://evil.example/cb", NoScope,
                               NoState).resp.error = "invalid_redirect_uri"
        /\ AuthorizeGetHandler(Cur, s, "token", RegisteredClient, RegisteredUri,
                               NoScope, NoState).resp.error = "unsupported_response_type"

\* the tokens a request can present: the issued ones and one that was never issued
TokenInputs == AccessKeys \cup { "a-unknown" }

\* C18: at the Bearer validator a request without an Authorization header is
\* answered 401 missing_token; one whose token is not in the access-token store is
\* answered 401 invalid_token; one whose token is stored and unexpired reaches the
\* resource handler with exactly the stored record of the token attached; and in
\* the three cases no store changes.
BearerOutcomes ==
    /\ LET h == ApiUserHandler(Cur, << >>)
       IN  /\ h.resp.status = 401
           /\ h.resp.error = "missing_token"
           /\ ~ h.resp.next
           /\ h.st = Cur
    /\ \A t \in TokenInputs \ DOMAIN accessTokens :
          LET h == ApiUserHandler(Cur, << "Bearer", " ", t >>)
          IN  /\ h.resp.status = 401
              /\ h.resp.error = "invalid_token"
              /\ ~ h.resp.next
              /\ h.st = Cur
    /\ \A t \in DOMAIN accessTokens :
          now <= accessTokens[t].expiresAt =>
              LET h == ApiUserHandler(Cur, << "Bearer", " ", t >>)
              IN  /\ h.resp.next
                  /\ h.resp.error = ""
                  /\ h.resp.tokenData = << accessTokens[t] >>
                  /\ h.st = Cur

\* the store holds an unexpired token, and an issued token is no longer stored
BearerOutcomesWitness ==
    /\ \E t \in DOMAIN accessTokens :
          /\ now <= accessTokens[t].expiresAt
          /\ ApiUserHandler(Cur, << "Bearer", " ", t >>).resp.next
    /\ \E t \in IssuedAccessTokens(Cur) \ DOMAIN accessTokens :
          ApiUserHandler(Cur, << "Bearer", " ", t >>).resp.error = "invalid_token"

\* C19: a valid GET /oauth/authorize (response_type=code, registered client,
\* registered redirect_uri) from a session without a signed-in principal stores the
\* five parameters as the pending authorization of that session and redirects to
\* the upstream sign-in route; no consent page is rendered and no code is minted.
SignedOutRequestIsStashed ==
    \A s \in Sessions, sc \in ScopeInputs, state \in StateInputs :
        sessions[s].user = Undefined =>
            LET h == AuthorizeGetHandler(Cur, s, "code", RegisteredClient,
                                         RegisteredUri, sc, state)
            IN  /\ h.resp.status = 302
                /\ h.resp.redirect = "/oauthSignin"
                /\ ~ h.resp.consent
                /\ h.st.sessions[s].pendingOAuth =
                      << [ response_type |-> "code", client_id |-> RegisteredClient,
                           redirect_uri |-> RegisteredUri, scope |-> sc,
                           state |-> state ] >>
                /\ h.st.sessions[s].user = Undefined
                /\ \A o \in Sessions \ { s } : h.st.sessions[o] = sessions[o]
                /\ h.st.authorizationCodes = authorizationCodes
                /\ h.st.issued = issued
                /\ NoTokenMinted(Cur, h)

\* a signed-out session holds the five parameters of a valid request
StashedWitness ==
    \E s \in Sessions :
        /\ sessions[s].user = Undefined
        /\ sessions[s].pendingOAuth =
              << [ response_type |-> "code", client_id |-> RegisteredClient,
                   redirect_uri |-> RegisteredUri,
                   scope |-> << "read", " ", "write" >>, state |-> << "xyz" >> ] >>

\* C20: after a session stashed a pending authorization and the principal came back
\* signed in from the upstream provider (the callback at /oauthRedirect answered
\* with the redirect to the home page), the pending authorization is eventually
\* consumed and the principal is back at /oauth/authorize on the consent page.
PendingFlowCompletes ==
    \A s \in Sessions :
        ( /\ sessions[s].user # Undefined
          /\ sessions[s].pendingOAuth # << >>
          /\ browser[s].location = << "/" >> )
        ~> ( /\ sessions[s].pendingOAuth = << >>
             /\ browser[s].page = "consent" )

\* the state st with one more session, o, in the session store
WithOtherSession(st, o, rec) ==
    [ st EXCEPT !.sessions =
        [ x \in DOMAIN st.sessions \cup { o } |-> IF x = o THEN rec ELSE st.sessions[x] ] ]

\* what another session can hold: signed in or not, with or without a stash
OtherSessionRecords ==
    { [ user |-> u, pendingOAuth |-> p ] :
        u \in Users \cup { Undefined },
        p \in { << >>,
                << [ response_type |-> "code", client_id |-> RegisteredClient,
                     redirect_uri |-> RegisteredUri, scope |-> << "read" >>,
                     state |-> << "other" >> ] >> } }

\* C21: a stashed pending authorization is consumed at most once: the step that
\* resumes the flow removes it from the session in that step, the next request of
\* the session is not redirected to /oauth/authorize again, and the step neither
\* changes another session nor a store.
PendingConsumedOnce ==
    \A s \in Sessions, rec \in OtherSessionRecords :
        ( sessions[s].user # Undefined /\ sessions[s].pendingOAuth # << >> ) =>
            LET st == WithOtherSession(Cur, "s2", rec)
                h == UnmatchedHandler(st, s)
                again == UnmatchedHandler(h.st, s)
            IN  /\ h.resp.status = 302
                /\ h.resp.redirect = "/oauth/authorize"
                /\ h.st.sessions[s].pendingOAuth = << >>
                /\ h.st.sessions[s].user = sessions[s].user
                /\ h.st.sessions["s2"] = rec
                /\ UnmatchedHandler(h.st, "s2").resp = UnmatchedHandler(st, "s2").resp
                /\ h.st.authorizationCodes = authorizationCodes
                /\ NoTokenMinted(st, h)
                /\ again.resp.status = 404
                /\ again.resp.redirect = ""
                /\ again.st = h.st

\* the middleware has sent the browser back to /oauth/authorize, the stash is gone,
\* and the same request again is not redirected
PendingConsumedWitness ==
    \E s \in Sessions :
        /\ browser[s].location # << >>
        /\ browser[s].location[1] = "/oauth/authorize"
        /\ sessions[s].pendingOAuth = << >>
        /\ UnmatchedHandler(Cur, s).resp.status = 404

\* C22: each approve by a signed-in principal adds exactly one authorization code,
\* bound to the user of the session, the submitted client_id and redirect_uri and
\* the space-split scope, expiring 10 minutes later, and redirects to the
\* redirect_uri with that code and the state; the token stores are unchanged.
ApproveAddsOneCode ==
    \A s \in Sessions, cid \in ClientIds, u \in RedirectUris, sc \in ScopeInputs,
       state \in StateInputs :
        sessions[s].user # Undefined =>
            LET h == AuthorizePostHandler(Cur, s, "approve", cid, u, sc, state)
                code == RandomHex("c", issued.code + 1)
            IN  /\ code \notin DOMAIN authorizationCodes
                /\ DOMAIN h.st.authorizationCodes = DOMAIN authorizationCodes \cup { code }
                /\ \A c \in DOMAIN authorizationCodes :
                      h.st.authorizationCodes[c] = authorizationCodes[c]
                /\ h.st.authorizationCodes[code] =
                      [ userId |-> sessions[s].user, clientId |-> cid, redirectUri |-> u,
                        scopes |-> ScopesOf(sc), expiresAt |-> now + 600000 ]
                /\ NoTokenMinted(Cur, h)
                /\ h.st.sessions = sessions
                /\ h.resp.status = 302
                /\ h.resp.redirect = u
                /\ SearchParam(h.resp.url, "code") = << code >>
                /\ Truthy(state) => SearchParam(h.resp.url, "state") = state

\* the error codes of the authorization and token endpoints
ErrorCodes ==
    AuthorizeErrors \cup { "unauthorized", "invalid_request", "invalid_client",
                          "invalid_grant", "unsupported_grant_type" }

\* C24: no request to the authorization or token endpoints ends in an unhandled
\* fault: an answer that is not a success is an HTTP status with an error code of
\* the endpoint, and then no authorization code is left behind in the store.
NoUnhandledFault ==
    /\ \A s \in Sessions, a \in Actions, cid \in ClientIds, u \in RedirectUris,
          sc \in BodyScopes, state \in StateInputs :
          LET h == AuthorizePostHandler(Cur, s, a, cid, u, sc, state)
          IN  h.resp.status >= 400 =>
                  /\ h.resp.status < 500
                  /\ h.resp.error \in ErrorCodes
                  /\ h.st.authorizationCodes = authorizationCodes
    /\ \A s \in Sessions, rt \in ResponseTypes \cup { Undefined }, cid \in ClientIds,
          u \in RedirectUris, sc \in BodyScopes, state \in StateInputs :
          LET h == AuthorizeGetHandler(Cur, s, rt, cid, u, sc, state)
          IN  h.resp.status >= 400 =>
                  /\ h.resp.status < 500
                  /\ h.resp.error \in ErrorCodes
                  /\ h.st.authorizationCodes = authorizationCodes
    /\ \A b \in TokenRequests :
          LET h == TokenAnswer(Cur, b)
          IN  h.resp.status >= 400 =>
                  /\ h.resp.status < 500
                  /\ h.resp.error \in ErrorCodes
                  /\ DOMAIN h.st.authorizationCodes \subseteq DOMAIN authorizationCodes

\* C23: a generated key that equals a key already present in its store is never
\* silently overwritten: the write fails, and the record stored under the key
\* keeps its user, client and scopes. The key drawn is an input of each write,
\* taken here from the keys of the store.
CollisionIsNotOverwritten ==
    /\ \A k \in DOMAIN authorizationCodes, s \in Sessions, cid \in ClientIds,
          u \in RedirectUris, sc \in ScopeInputs :
          sessions[s].user # Undefined =>
              MintCode(Cur, k, sessions[s].user, cid, u, sc).authorizationCodes
                  = authorizationCodes
    /\ \A k \in DOMAIN accessTokens, rt \in DOMAIN refreshTokens :
          RefreshAccess(Cur, rt, refreshTokens[rt].clientId, k).accessTokens
              = accessTokens
    /\ \A c \in DOMAIN authorizationCodes, a \in DOMAIN accessTokens,
          r \in DOMAIN refreshTokens :
          LET st == ExchangeCode(Cur, c, authorizationCodes[c].clientId, a, r)
          IN  st.accessTokens = accessTokens /\ st.refreshTokens = refreshTokens

\* The store after each statement of the authorization_code grant that writes a
\* store, in the order of the handler: accessTokens.set, refreshTokens.set,
\* authorizationCodes.delete. The first element is the store before the first.
ExchangeStatements(st, code, client_id, accessToken, newRefreshToken) ==
    LET authCode == st.authorizationCodes[code]
        s1 == [ st EXCEPT
                  !.accessTokens =
                      MapSet(@, accessToken,
                             [ userId |-> authCode.userId, clientId |-> client_id,
                               scopes |-> authCode.scopes,
                               expiresAt |-> st.now + ExpiresIn * 1000 ]),
                  !.issued.access = @ + 1 ]
        s2 == [ s1 EXCEPT
                  !.refreshTokens =
                      MapSet(@, newRefreshToken,
                             [ userId |-> authCode.userId, clientId |-> client_id,
                               scopes |-> authCode.scopes ]),
                  !.issued.refresh = @ + 1 ]
        s3 == [ s2 EXCEPT !.authorizationCodes = MapDelete(@, code) ]
    IN  << st, s1, s2, s3 >>

\* the statements of the exchange end in the store the handler leaves
ExchangeStatementsEndInExchange ==
    \A b \in TokenRequests :
        ( b.grant_type = "authorization_code" /\ TokenAnswer(Cur, b).resp.status = 200 ) =>
            LET a == RandomHex("a", issued.access + 1)
                r == RandomHex("r", issued.refresh + 1)
                tr == ExchangeStatements(Cur, b.code, b.client_id, a, r)
            IN  tr[4] = TokenAnswer(Cur, b).st

\* C25: in the authorization_code grant the code is deleted before any token is
\* minted: in every execution that passes the client, lookup, expiry and binding
\* checks, the code is absent from the code store at each statement that writes
\* the access-token store or the refresh-token store.
CodeDeletedBeforeMinting ==
    \A b \in TokenRequests :
        ( b.grant_type = "authorization_code" /\ TokenAnswer(Cur, b).resp.status = 200 ) =>
            LET a == RandomHex("a", issued.access + 1)
                r == RandomHex("r", issued.refresh + 1)
                tr == ExchangeStatements(Cur, b.code, b.client_id, a, r)
            IN  \A i \in 2 .. Len(tr) :
                    ( tr[i].accessTokens # tr[i - 1].accessTokens
                      \/ tr[i].refreshTokens # tr[i - 1].refreshTokens )
                        => b.code \notin DOMAIN tr[i - 1].authorizationCodes

(* ------------------- token requests in flight together ---------------- *)
\* The callback of POST /oauth/token has no await and no callback of its own: once
\* the event loop starts it for a request it runs to its answer before the
\* callback of any other request starts. Requests interleave between arrival (the
\* body is read and parsed) and the run of the callback, not inside the callback.

\* a callback that decides on the code store as it was when its request arrived
RunOnArrivalSnapshot(st, q) ==
    TokenAnswer([ st EXCEPT !.authorizationCodes = requests[q].seen[1] ],
                requests[q].body[1])

\* the callback of request q, run on the stores as they are when it starts
RunToCompletion(st, q) == TokenAnswer(st, requests[q].body[1])

\* the bodies of the racing requests: the authorization_code grant of the
\* registered client
RaceBodies ==
    { [ grant_type |-> "authorization_code", code |-> k, redirect_uri |-> u,
        client_id |-> RegisteredClient, client_secret |-> RegisteredSecret,
        refresh_token |-> Undefined ] :
        k \in CodeKeys, u \in { RegisteredUri, "https://evil.example/cb" } }

\* request q arrives with body b
Receive(q, b) ==
    /\ requests[q].pc = "idle"
    /\ requests' = [ requests EXCEPT
                       ![q] = [ pc |-> "queued", body |-> << b >>,
                                seen |-> << authorizationCodes >>, resp |-> << >> ] ]
    /\ UNCHANGED << authorizationCodes, accessTokens, refreshTokens, sessions, now,
                    issued, ticks, browser >>
    /\ UNCHANGED dbVars

\* the event loop runs the callback of request q
Handle(q) ==
    /\ requests[q].pc = "queued"
    /\ LET h == RunToCompletion(Cur, q)
       IN  /\ Store(h)
           /\ requests' = [ requests EXCEPT
                              ![q].pc = "answered", ![q].resp = << h.resp >> ]
    /\ UNCHANGED browser

RaceNext ==
    \/ \E s \in Sessions, u \in Users \cup {Undefined} : OAuthRedirect(s, u)
    \/ \E s \in Sessions, b \in ConsentBodies :
          AuthorizePost(s, b.action, b.client_id, b.redirect_uri, b.scope, b.state)
    \/ \E q \in Requests, b \in RaceBodies : Receive(q, b)
    \/ \E q \in Requests : Handle(q)

RaceSpec == Init /\ [][RaceNext]_vars

\* C26: of two token requests in flight together that present the same valid code
\* with correct credentials and redirect_uri, under every order of arrival and of
\* the callbacks, at most one is answered with tokens and the other is answered
\* invalid_grant; no more token pairs exist than codes were redeemed.
ConcurrentRedemption ==
    /\ \A q1 \in Requests : \A q2 \in Requests \ { q1 } :
          ( /\ requests[q1].pc = "answered"
            /\ requests[q2].pc = "answered"
            /\ requests[q1].body[1].code = requests[q2].body[1].code
            /\ requests[q1].resp[1].status = 200 )
              => /\ requests[q2].resp[1].status = 400
                 /\ requests[q2].resp[1].error = "invalid_grant"
    /\ Cardinality(DOMAIN accessTokens)
          <= Cardinality({ c \in IssuedCodes(Cur) : Spent(Cur, c) })
    /\ Cardinality(DOMAIN refreshTokens)
          <= Cardinality({ c \in IssuedCodes(Cur) : Spent(Cur, c) })

ConcurrentRedemptionWitness ==
    \E q1 \in Requests : \E q2 \in Requests \ { q1 } :
        /\ requests[q1].pc = "answered"
        /\ requests[q2].pc = "answered"
        /\ requests[q1].body = requests[q2].body
        /\ requests[q1].body[1].code \in DOMAIN requests[q1].seen[1]
        /\ requests[q2].body[1].code \in DOMAIN requests[q2].seen[1]
        /\ CodeBound(requests[q2].seen[1][requests[q2].body[1].code],
                     requests[q2].body[1].client_id, requests[q2].body[1].redirect_uri)
        /\ requests[q1].resp[1].status = 200
        /\ requests[q2].resp[1].error = "invalid_grant"
        /\ Cardinality(DOMAIN accessTokens) = 1
        /\ Cardinality(DOMAIN refreshTokens) = 1

\* C27: when the upstream refresh fails on a home-page visit of a signed-in
\* session, the session has no authenticated principal after the request and the
\* response redirects to the sign-in route.
RefreshFailureClearsSession ==
    \A s \in Sessions :
        sessions[s].user # Undefined =>
            LET h == HomeHandler(Cur, s, FALSE)
            IN  /\ h.resp.status = 302
                /\ h.resp.redirect = "/oauthSignin"
                /\ h.st.sessions[s].user = Undefined

ElapsedUpToExpiry == { 0, 1, ExpiresIn * 1000 - 1, ExpiresIn * 1000 }
ElapsedAfterExpiry == { ExpiresIn * 1000 + 1, ExpiresIn * 1000 + CodeTTL }

\* C29: the lifetime of an access token is 3600 seconds: a token minted at time t by
\* either grant has expiresAt = t + 3600 s and the answer reports expires_in 3600;
\* the Bearer validator accepts it at every time up to and including expiresAt and
\* rejects it with token_expired at every later time.
AccessTokenLifetime ==
    \A b \in TokenRequests :
        LET h == TokenAnswer(Cur, b)
            t == h.resp.access_token
            header == << "Bearer", " ", t >>
        IN  h.resp.status = 200 =>
                /\ h.resp.expires_in = 3600
                /\ t \in DOMAIN h.st.accessTokens
                /\ h.st.accessTokens[t].expiresAt = now + 3600 * 1000
                /\ \A d \in ElapsedUpToExpiry :
                      LET v == ApiUserHandler(Later(h.st, d), header)
                      IN  /\ v.resp.status = 200
                          /\ v.resp.next
                          /\ t \in DOMAIN v.st.accessTokens
                /\ \A d \in ElapsedAfterExpiry :
                      LET v == ApiUserHandler(Later(h.st, d), header)
                      IN  /\ v.resp.status = 401
                          /\ v.resp.error = "token_expired"
                          /\ ~ v.resp.next

\* tokens of both grants are stored, and the one minted last is accepted at its
\* expiry time and rejected one millisecond later
AccessTokenLifetimeWitness ==
    /\ issued.access >= 2
    /\ \E t \in DOMAIN accessTokens :
          /\ accessTokens[t].expiresAt >= now
          /\ accessTokens[t].expiresAt <= now + ExpiresIn * 1000
          /\ ApiUserHandler(Later(Cur, accessTokens[t].expiresAt - now),
                            << "Bearer", " ", t >>).resp.status = 200
          /\ ApiUserHandler(Later(Cur, accessTokens[t].expiresAt - now + 1),
                            << "Bearer", " ", t >>).resp.error = "token_expired"

\* a session without an authenticated principal
SignedOut == [ user |-> Undefined, pendingOAuth |-> << >> ]

\* the consent form posted from a signed-out session is answered 401 unauthorized
\* whatever the action, without a redirect and without a change of the stores;
\* and every stored code carries the user id of a principal
C30State ==
    /\ \A a \in Actions, cid \in ClientIds, u \in RedirectUris, sc \in BodyScopes,
          state \in StateInputs :
          LET st == WithOtherSession(Cur, "s2", SignedOut)
              h == AuthorizePostHandler(st, "s2", a, cid, u, sc, state)
          IN  /\ h.resp.status = 401
              /\ h.resp.error = "unauthorized"
              /\ h.resp.redirect = ""
              /\ h.resp.url = << >>
              /\ h.st = st
    /\ \A s \in Sessions, a \in Actions, cid \in ClientIds, u \in RedirectUris,
          sc \in BodyScopes, state \in StateInputs :
          sessions[s].user = Undefined =>
              LET h == AuthorizePostHandler(Cur, s, a, cid, u, sc, state)
              IN  /\ h.resp.status = 401
                  /\ h.resp.error = "unauthorized"
                  /\ h.resp.redirect = ""
                  /\ h.st = Cur
    /\ \A c \in DOMAIN authorizationCodes : authorizationCodes[c].userId \in Users

\* a code that enters the store carries the user id of a principal signed in to
\* some session at that step
C30Step ==
    \A c \in DOMAIN authorizationCodes' \ DOMAIN authorizationCodes :
        \E s \in Sessions :
            /\ sessions[s].user # Undefined
            /\ authorizationCodes'[c].userId = sessions[s].user

\* C30: POST /oauth/authorize from a session without an authenticated principal
\* answers 401 unauthorized for every action value, performs no redirect and mints
\* no code; every authorization code in the store carries the user id of a
\* principal that was authenticated in the approving session at approval time.
ConsentNeedsPrincipal == [] C30State /\ [][C30Step]_vars

\* a code approved by a signed-in principal is stored, and the consent form posted
\* from a signed-out session is answered 401
ConsentNeedsPrincipalWitness ==
    /\ \E c \in DOMAIN authorizationCodes : authorizationCodes[c].userId \in Users
    /\ LET st == WithOtherSession(Cur, "s2", SignedOut)
       IN  AuthorizePostHandler(st, "s2", "approve", RegisteredClient, RegisteredUri,
                                << "read" >>, << "xyz" >>).resp.status = 401

\* the action values that are neither approve nor deny, the missing one included
OtherActions == ( Actions \cup { Undefined, "" } ) \ { "approve", "deny" }

\* C31: POST /oauth/authorize from a signed-in principal with an action that is
\* neither approve nor deny, or without an action, answers 400 invalid_request,
\* performs no redirect and leaves every store unchanged.
OtherActionIsRefused ==
    LET cur == Cur
    IN  \A s \in { x \in Sessions : sessions[x].user # Undefined } :
            \A a \in OtherActions, cid \in ClientIds, u \in RedirectUris,
               sc \in { NoScope, << "read" >>, ArrayScope },
               state \in { NoState, << "xyz" >> } :
                LET h == AuthorizePostHandler(cur, s, a, cid, u, sc, state)
                IN  /\ h.resp.status = 400
                    /\ h.resp.error = "invalid_request"
                    /\ h.resp.redirect = ""
                    /\ h.resp.url = << >>
                    /\ h.resp.code = Undefined
                    /\ h.st = cur

\* a signed-in session with a code in the store posts the form without an action
OtherActionWitness ==
    \E s \in Sessions :
        /\ sessions[s].user # Undefined
        /\ DOMAIN authorizationCodes # {}
        /\ AuthorizePostHandler(Cur, s, Undefined, RegisteredClient, RegisteredUri,
                                << "read" >>, << "xyz" >>).resp.error = "invalid_request"

\* the grant a record of a store stands for
GrantOf(rec) == [ userId |-> rec.userId, clientId |-> rec.clientId, scopes |-> rec.scopes ]

\* from store st to store st2: each new code carries the user of a session signed in
\* in st; each new refresh token carries the grant of a code of st that st2 no
\* longer holds; each new access token carries the grant of such a code or of a
\* refresh token of st; and the tokens of st keep their grants
Provenance(st, st2) ==
    LET redeemed == { st.authorizationCodes[c] :
                        c \in DOMAIN st.authorizationCodes \ DOMAIN st2.authorizationCodes }
    IN  /\ \A c \in DOMAIN st2.authorizationCodes \ DOMAIN st.authorizationCodes :
              \E s \in DOMAIN st.sessions :
                  /\ st.sessions[s].user # Undefined
                  /\ st2.authorizationCodes[c].userId = st.sessions[s].user
        /\ \A r \in DOMAIN st2.refreshTokens \ DOMAIN st.refreshTokens :
              \E code \in redeemed : GrantOf(st2.refreshTokens[r]) = GrantOf(code)
        /\ \A t \in DOMAIN st2.accessTokens \ DOMAIN st.accessTokens :
              \/ \E code \in redeemed : GrantOf(st2.accessTokens[t]) = GrantOf(code)
              \/ \E r \in DOMAIN st.refreshTokens :
                    GrantOf(st2.accessTokens[t]) = GrantOf(st.refreshTokens[r])
        /\ \A r \in DOMAIN st2.refreshTokens \cap DOMAIN st.refreshTokens :
              st2.refreshTokens[r] = st.refreshTokens[r]
        /\ \A t \in DOMAIN st2.accessTokens \cap DOMAIN st.accessTokens :
              st2.accessTokens[t] = st.accessTokens[t]

\* every token is of a principal and of a client of the registry, every access
\* token carries the grant of a stored refresh token, and no request to the token
\* endpoint or to the consent form breaks the provenance
C32State ==
    /\ \A r \in DOMAIN refreshTokens :
          /\ refreshTokens[r].userId \in Users
          /\ refreshTokens[r].clientId \in DOMAIN clients
    /\ \A t \in DOMAIN accessTokens :
          /\ accessTokens[t].userId \in Users
          /\ accessTokens[t].clientId \in DOMAIN clients
          /\ \E r \in DOMAIN refreshTokens :
                GrantOf(accessTokens[t]) = GrantOf(refreshTokens[r])
    /\ ( DOMAIN accessTokens \cup DOMAIN refreshTokens ) # {} =>
          \E c \in IssuedCodes(Cur) : Spent(Cur, c)
    /\ \A b \in TokenRequests : Provenance(Cur, TokenAnswer(Cur, b).st)
    /\ \A s \in Sessions, a \in Actions, cid \in ClientIds, u \in RedirectUris,
          sc \in ScopeInputs :
          Provenance(Cur, AuthorizePostHandler(Cur, s, a, cid, u, sc, NoState).st)

C32Step == Provenance(Cur, Cur')

\* C32: in every reachable state each access token and each refresh token has the
\* userId and scopes of an authorization code that was minted by an approval and
\* successfully exchanged, directly or through the refresh token of that exchange,
\* and a clientId that is a key of the client registry.
TokenProvenance == [] C32State /\ [][C32Step]_vars

\* tokens of an exchange and of a refresh are stored with the grant of the approval
TokenProvenanceWitness ==
    /\ issued.access >= 2
    /\ DOMAIN authorizationCodes = {}
    /\ \E t \in DOMAIN accessTokens, r \in DOMAIN refreshTokens :
          /\ GrantOf(accessTokens[t]) = GrantOf(refreshTokens[r])
          /\ accessTokens[t].scopes # << >>

\* the token request that presents code c with the client and the redirect_uri the
\* code is bound to, and the secret of that client
Redeeming(st, c) ==
    [ grant_type |-> "authorization_code", code |-> c,
      redirect_uri |-> st.authorizationCodes[c].redirectUri,
      client_id |-> st.authorizationCodes[c].clientId,
      client_secret |-> clients[st.authorizationCodes[c].clientId].clientSecret,
      refresh_token |-> Undefined ]

\* C33: a failed redemption attempt does not burn the code: after a token request
\* rejected with invalid_grant for a client_id or redirect_uri mismatch, or with
\* invalid_client for bad credentials, the unexpired code is still in the code
\* store unchanged, and a following request with the correct client credentials
\* and redirect_uri before expiry succeeds.
FailedAttemptKeepsCode ==
    \A c \in DOMAIN authorizationCodes :
        ( now <= authorizationCodes[c].expiresAt
          /\ authorizationCodes[c].clientId \in DOMAIN clients ) =>
            \A b \in TokenRequests :
                ( /\ b.grant_type = "authorization_code"
                  /\ b.code = c
                  /\ \/ ~ ValidClient(b.client_id, b.client_secret)
                     \/ b.client_id # authorizationCodes[c].clientId
                     \/ b.redirect_uri # authorizationCodes[c].redirectUri ) =>
                    LET h == TokenAnswer(Cur, b)
                    IN  /\ h.resp.error
                            = IF ValidClient(b.client_id, b.client_secret)
                              THEN "invalid_grant" ELSE "invalid_client"
                        /\ h.st = Cur
                        /\ \A d \in { 0, authorizationCodes[c].expiresAt - now } :
                              LET g == TokenAnswer(Later(h.st, d), Redeeming(h.st, c))
                              IN  /\ g.resp.status = 200
                                  /\ g.resp.scope = Join(authorizationCodes[c].scopes, " ")
                                  /\ c \notin DOMAIN g.st.authorizationCodes

\* an unexpired code of the registered client is stored; presenting it with another
\* redirect_uri is refused, and presenting it then with its own succeeds
FailedAttemptWitness ==
    \E c \in DOMAIN authorizationCodes :
        /\ now <= authorizationCodes[c].expiresAt
        /\ authorizationCodes[c].clientId = RegisteredClient
        /\ authorizationCodes[c].redirectUri = RegisteredUri
        /\ LET h == CodeGrant(Cur, c, "https://evil.example/cb", RegisteredClient,
                              RegisteredSecret)
           IN  /\ h.resp.error = "invalid_grant"
               /\ TokenAnswer(h.st, Redeeming(h.st, c)).resp.status = 200

\* the keys of map m that store st2 no longer holds
Removed(m, m2) == DOMAIN m \ DOMAIN m2

\* the handler outcome h removes no record of any store
RemovesNothing(h) ==
    /\ Removed(authorizationCodes, h.st.authorizationCodes) = {}
    /\ Removed(accessTokens, h.st.accessTokens) = {}
    /\ Removed(refreshTokens, h.st.refreshTokens) = {}

\* what each handler removes, for every request it can get: the token endpoint at
\* most the code presented, on success or on expiry; the Bearer validator at most
\* the token presented, on expiry; every other handler nothing
C34State ==
    /\ \A b \in TokenRequests :
          LET h == TokenAnswer(Cur, b)
              gone == Removed(authorizationCodes, h.st.authorizationCodes)
          IN  /\ gone \subseteq { b.code }
              /\ gone # {} =>
                    /\ b.grant_type = "authorization_code"
                    /\ \/ h.resp.status = 200
                       \/ h.resp.error = "invalid_grant"
                          /\ now > authorizationCodes[b.code].expiresAt
              /\ Removed(accessTokens, h.st.accessTokens) = {}
              /\ Removed(refreshTokens, h.st.refreshTokens) = {}
    /\ \A a \in HeaderInputs \cup { << "Bearer", " ", "a-unknown" >> } :
          LET h == ApiUserHandler(Cur, a)
              gone == Removed(accessTokens, h.st.accessTokens)
          IN  /\ gone \subseteq { TokenOf(a) }
              /\ gone # {} =>
                    /\ h.resp.error = "token_expired"
                    /\ now > accessTokens[TokenOf(a)].expiresAt
              /\ Removed(authorizationCodes, h.st.authorizationCodes) = {}
              /\ Removed(refreshTokens, h.st.refreshTokens) = {}
    /\ \A s \in Sessions :
          /\ \A a \in Actions, cid \in ClientIds, u \in RedirectUris, sc \in BodyScopes :
                RemovesNothing(AuthorizePostHandler(Cur, s, a, cid, u, sc, NoState))
          /\ \A rt \in ResponseTypes \cup { Undefined }, cid \in ClientIds,
                u \in RedirectUris :
                RemovesNothing(AuthorizeGetHandler(Cur, s, rt, cid, u, NoScope, NoState))
          /\ \A refreshed \in BOOLEAN : RemovesNothing(HomeHandler(Cur, s, refreshed))
          /\ \A u \in Users \cup { Undefined } :
                RemovesNothing(OAuthRedirectHandler(Cur, s, u))
          /\ RemovesNothing(UnmatchedHandler(Cur, s))

\* a step that removes a code is a token request presenting it, one that removes an
\* access token is a Bearer validation presenting it after its expiry, and no step
\* removes a refresh token
C34Step ==
    /\ \A c \in Removed(authorizationCodes, authorizationCodes') :
          \E b \in TokenRequests : b.code = c /\ TokenAnswer(Cur, b).st = Cur'
    /\ \A t \in Removed(accessTokens, accessTokens') :
          /\ now > accessTokens[t].expiresAt
          /\ ApiUserHandler(Cur, << "Bearer", " ", t >>).st = Cur'
    /\ Removed(refreshTokens, refreshTokens') = {}

\* C34: records leave the stores only by lookup: an authorization code is removed
\* only by a token request that presents it, on success or on expiry; an access
\* token only by a Bearer validation that finds it expired; a refresh token never.
\* An expired code or access token that is not presented stays in its store.
RemovedOnlyByLookup == [] C34State /\ [][C34Step]_vars

\* an expired code is still stored, and the token request that presents it removes it
RemovedOnlyByLookupWitness ==
    \E c \in DOMAIN authorizationCodes :
        /\ now > authorizationCodes[c].expiresAt
        /\ authorizationCodes[c].clientId = RegisteredClient
        /\ c \notin DOMAIN TokenAnswer(Cur, Redeeming(Cur, c)).st.authorizationCodes
        /\ TokenAnswer(Cur, Redeeming(Cur, c)).resp.error = "invalid_grant"

\* the queries of GET /oauth/authorize that pass the validation
ValidQueries ==
    { q \in AuthorizeQueries \cup FlowQueries :
        AuthorizeRejection(q.response_type, q.client_id, q.redirect_uri) = "" }

\* GET /oauth/authorize with the query q
AuthorizeGetOf(st, s, q) ==
    AuthorizeGetHandler(st, s, q.response_type, q.client_id, q.redirect_uri, q.scope,
                        q.state)

\* C35: a session holds at most one pending authorization: when a signed-out
\* session sends a second valid GET /oauth/authorize before signing in, the
\* parameters of the second replace those of the first, and after sign-in only the
\* last stashed request can be resumed.
OnePendingPerSession ==
    \A s \in Sessions :
        /\ Len(sessions[s].pendingOAuth) <= 1
        /\ sessions[s].user = Undefined =>
              \A q1 \in ValidQueries, q2 \in ValidQueries, u \in Users :
                  LET h1 == AuthorizeGetOf(Cur, s, q1)
                      h2 == AuthorizeGetOf(h1.st, s, q2)
                      in == OAuthRedirectHandler(h2.st, s, u)
                      r == UnmatchedHandler(in.st, s)
                      again == UnmatchedHandler(r.st, s)
                  IN  /\ h1.st.sessions[s].pendingOAuth = << q1 >>
                      /\ h2.resp.redirect = "/oauthSignin"
                      /\ h2.st.sessions[s].pendingOAuth = << q2 >>
                      /\ r.resp.redirect = "/oauth/authorize"
                      /\ r.resp.url = AuthorizeUrl(q2)
                      /\ r.st.sessions[s].pendingOAuth = << >>
                      /\ again.resp.status = 404

\* a signed-out session holds a pending authorization, and another valid request
\* replaces it
OnePendingWitness ==
    \E s \in Sessions, q \in ValidQueries :
        /\ sessions[s].user = Undefined
        /\ sessions[s].pendingOAuth # << >>
        /\ sessions[s].pendingOAuth # << q >>
        /\ AuthorizeGetOf(Cur, s, q).st.sessions[s].pendingOAuth = << q >>

\* the scope and state values of a query: absent, a string, or the array of a
\* parameter that is given twice
QueryValues == ScopeInputs \cup StateInputs \cup { ArrayScope }

\* C36: when the pending-authorization middleware resumes a stashed request, the
\* GET /oauth/authorize it redirects to carries the same response_type, client_id,
\* redirect_uri, scope and state as the original request; a scope or state absent
\* from the original request is absent from the resumed one.
PendingRoundTrip ==
    \A s \in Sessions, sc \in QueryValues, state \in QueryValues, u \in Users :
        sessions[s].user = Undefined =>
            LET q == [ response_type |-> "code", client_id |-> RegisteredClient,
                       redirect_uri |-> RegisteredUri, scope |-> sc, state |-> state ]
                h == AuthorizeGetOf(Cur, s, q)
                in == OAuthRedirectHandler(h.st, s, u)
                url == UnmatchedHandler(in.st, s).resp.url
            IN  /\ url # << >>
                /\ url[1] = "/oauth/authorize"
                /\ SearchParam(url, "response_type") = << q.response_type >>
                /\ SearchParam(url, "client_id") = << q.client_id >>
                /\ SearchParam(url, "redirect_uri") = << q.redirect_uri >>
                /\ SearchParam(url, "scope") = sc
                /\ SearchParam(url, "state") = state

(* --------------------- the mock DatabaseService ----------------------- *)
\* Every method awaits a timer of 500 ms and then runs to its return without
\* another await: calls interleave at the timers, not inside a method.

\* Date.now().toString()
NewId(t) == ToString(t)

\* the sum of a sequence of numbers
RECURSIVE SumSeq(_)
SumSeq(ns) == IF ns = << >> THEN 0 ELSE Head(ns) + SumSeq(Tail(ns))

\* proj.subsystems.reduce((subAcc, sub) => subAcc + sub.parts.length, 0)
PartsOf(proj) ==
    SumSeq([ j \in 1 .. Len(proj.subsystems) |-> Len(proj.subsystems[j].parts) ])

\* proj.subsystems.reduce((subAcc, sub) => subAcc + sub.assemblies.length, 0)
AssembliesOf(proj) ==
    SumSeq([ j \in 1 .. Len(proj.subsystems) |-> Len(proj.subsystems[j].assemblies) ])

\* a summary computed once, from the projects the page was loaded with
getDatabaseSummaryOnce(projects) ==
    [ total_parts |->
          SumSeq([ i \in 1 .. Len(InitialProjects) |-> PartsOf(InitialProjects[i]) ]),
      total_assemblies |->
          SumSeq([ i \in 1 .. Len(InitialProjects) |-> AssembliesOf(InitialProjects[i]) ]),
      total_subsystems |->
          SumSeq([ i \in 1 .. Len(InitialProjects) |-> Len(InitialProjects[i].subsystems) ]),
      total_projects |-> Len(InitialProjects) ]

\* the totals getDatabaseSummary returns for the array projects
getDatabaseSummary(projects) ==
    [ total_parts |-> SumSeq([ i \in 1 .. Len(projects) |-> PartsOf(projects[i]) ]),
      total_assemblies |-> SumSeq([ i \in 1 .. Len(projects) |-> AssembliesOf(projects[i]) ]),
      total_subsystems |-> SumSeq([ i \in 1 .. Len(projects) |-> Len(projects[i].subsystems) ]),
      total_projects |-> Len(projects) ]

\* Array.prototype.find by _id: the index of the first element with that _id, 0
\* when there is none
FindIndex(arr, id) ==
    IF \E i \in 1 .. Len(arr) : arr[i]._id = id
    THEN CHOOSE i \in 1 .. Len(arr) :
            arr[i]._id = id /\ \A j \in 1 .. i - 1 : arr[j]._id # id
    ELSE 0

\* the methods after their timer, at clock reading t: the object returned and the
\* array of projects left
createProject(projects, t, project) ==
    LET newProject == [ _id |-> NewId(t), subsystems |-> project.subsystems ]
    IN  [ result |-> newProject, projects |-> Append(projects, newProject) ]

createSubsystem(projects, t, projectId, subsystem) ==
    LET newSubsystem == [ _id |-> NewId(t), parts |-> subsystem.parts,
                          assemblies |-> subsystem.assemblies ]
        i == FindIndex(projects, projectId)
    IN  [ result |-> newSubsystem,
          projects |-> IF i = 0 THEN projects
                       ELSE [ projects EXCEPT ![i].subsystems = Append(@, newSubsystem) ] ]

createPart(projects, t, projectId, subsystemId, part) ==
    LET newPart == [ _id |-> NewId(t) ]
        i == FindIndex(projects, projectId)
        j == IF i = 0 THEN 0 ELSE FindIndex(projects[i].subsystems, subsystemId)
    IN  [ result |-> newPart,
          projects |-> IF i = 0 \/ j = 0 THEN projects
                       ELSE [ projects EXCEPT
                                ![i].subsystems[j].parts = Append(@, newPart) ] ]

createAssembly(projects, t, projectId, subsystemId, assembly) ==
    LET newAssembly == [ _id |-> NewId(t) ]
        i == FindIndex(projects, projectId)
        j == IF i = 0 THEN 0 ELSE FindIndex(projects[i].subsystems, subsystemId)
    IN  [ result |-> newAssembly,
          projects |-> IF i = 0 \/ j = 0 THEN projects
                       ELSE [ projects EXCEPT
                                ![i].subsystems[j].assemblies = Append(@, newAssembly) ] ]

\* the objects a caller passes: without children, as the forms of the page build
\* them, and with children, as the types allow
NoChildren == [ subsystems |-> << >>, parts |-> << >>, assemblies |-> << >> ]
ProjectArgs ==
    { NoChildren,
      [ NoChildren EXCEPT
          !.subsystems = << [ _id |-> "s9", parts |-> << [ _id |-> "p9" ] >>,
                              assemblies |-> << >> ] >> ] }

\* the ids a caller names: those of the first project and of its subsystem, those
\* of the projects created since, and one that matches nothing
CreatedProjectIds ==
    { mockProjects[i]._id : i \in Len(InitialProjects) + 1 .. Len(mockProjects) }
ProjectIdInputs == { "1", "nope" } \cup CreatedProjectIds
ParentInputs ==
    { [ projectId |-> "1", subsystemId |-> "s1" ],
      [ projectId |-> "1", subsystemId |-> "nope" ],
      [ projectId |-> "nope", subsystemId |-> "s1" ] }

\* call k is made: its promise is pending until the timer that is now set
DbCall(k, op, projectId, subsystemId, arg) ==
    /\ calls[k].pc = "idle"
    /\ \A j \in 1 .. k - 1 : calls[j].pc # "idle"
    /\ calls' = [ calls EXCEPT
                    ![k] = [ NoCall EXCEPT
                               !.pc = "waiting", !.op = op, !.projectId = projectId,
                               !.subsystemId = subsystemId, !.arg = arg,
                               !.due = clock + ApiDelay ] ]
    /\ UNCHANGED << mockProjects, clock >>
    /\ UNCHANGED serverVars

\* the timer of call k has fired and the method named op runs on
Resumes(k, op) ==
    /\ calls[k].pc = "waiting"
    /\ calls[k].op = op
    /\ clock >= calls[k].due

\* what the method of the pending call c stores and returns when it runs on now;
\* getDatabaseSummary stores nothing
OutcomeOf(c) ==
    CASE c.op = "createProject" -> createProject(mockProjects, clock, c.arg)
      [] c.op = "createSubsystem" ->
            createSubsystem(mockProjects, clock, c.projectId, c.arg)
      [] c.op = "createPart" ->
            createPart(mockProjects, clock, c.projectId, c.subsystemId, c.arg)
      [] c.op = "createAssembly" ->
            createAssembly(mockProjects, clock, c.projectId, c.subsystemId, c.arg)
      [] OTHER -> [ projects |-> mockProjects, result |-> [ _id |-> "" ] ]

\* the projects and the call record after the method returned out
Returns(k, out) ==
    /\ mockProjects' = out.projects
    /\ calls' = [ calls EXCEPT
                    ![k] = [ NoCall EXCEPT !.pc = "done", !.op = calls[k].op,
                                           !.result = out.result._id ] ]
    /\ UNCHANGED clock
    /\ UNCHANGED serverVars

GetDatabaseSummary(k) ==
    /\ Resumes(k, "getDatabaseSummary")
    /\ calls' = [ calls EXCEPT
                    ![k] = [ NoCall EXCEPT
                               !.pc = "done", !.op = calls[k].op,
                               !.summary = getDatabaseSummary(mockProjects) ] ]
    /\ UNCHANGED << mockProjects, clock >>
    /\ UNCHANGED serverVars

CreateProject(k) ==
    /\ Resumes(k, "createProject")
    /\ Returns(k, OutcomeOf(calls[k]))

CreateSubsystem(k) ==
    /\ Resumes(k, "createSubsystem")
    /\ Returns(k, OutcomeOf(calls[k]))

CreatePart(k) ==
    /\ Resumes(k, "createPart")
    /\ Returns(k, OutcomeOf(calls[k]))

CreateAssembly(k) ==
    /\ Resumes(k, "createAssembly")
    /\ Returns(k, OutcomeOf(calls[k]))

\* time passes: the clock is read again a timer's delay later
DbTick ==
    /\ clock + ApiDelay <= DbEpoch + MaxDelays * ApiDelay
    /\ clock' = clock + ApiDelay
    /\ UNCHANGED << mockProjects, calls >>
    /\ UNCHANGED serverVars

DbNext ==
    \/ DbTick
    \/ \E k \in Calls : DbCall(k, "getDatabaseSummary", "", "", NoChildren)
    \/ \E k \in Calls, arg \in ProjectArgs : DbCall(k, "createProject", "", "", arg)
    \/ \E k \in Calls, p \in ProjectIdInputs :
          DbCall(k, "createSubsystem", p, "", NoChildren)
    \/ \E k \in Calls, parent \in ParentInputs,
          op \in { "createPart", "createAssembly" } :
          DbCall(k, op, parent.projectId, parent.subsystemId, NoChildren)
    \/ \E k \in Calls : GetDatabaseSummary(k)
    \/ \E k \in Calls : CreateProject(k)
    \/ \E k \in Calls : CreateSubsystem(k)
    \/ \E k \in Calls : CreatePart(k)
    \/ \E k \in Calls : CreateAssembly(k)

DbSpec == Init /\ [][DbNext]_vars

\* the positions of the subsystems, parts and assemblies in the array projects
SubsystemsIn(projects) ==
    UNION { { << i, j >> : j \in 1 .. Len(projects[i].subsystems) } :
              i \in 1 .. Len(projects) }
PartsIn(projects) ==
    UNION { { << ij[1], ij[2], l >> :
                l \in 1 .. Len(projects[ij[1]].subsystems[ij[2]].parts) } :
              ij \in SubsystemsIn(projects) }
AssembliesIn(projects) ==
    UNION { { << ij[1], ij[2], l >> :
                l \in 1 .. Len(projects[ij[1]].subsystems[ij[2]].assemblies) } :
              ij \in SubsystemsIn(projects) }

\* the summary of the stored projects reports their numbers
C37State ==
    LET summary == getDatabaseSummary(mockProjects)
    IN  /\ summary.total_projects = Len(mockProjects)
        /\ summary.total_subsystems = Cardinality(SubsystemsIn(mockProjects))
        /\ summary.total_parts = Cardinality(PartsIn(mockProjects))
        /\ summary.total_assemblies = Cardinality(AssembliesIn(mockProjects))
        /\ \A k \in Calls :
              ( calls[k].pc = "done" /\ calls[k].op = "getDatabaseSummary" ) =>
                  /\ calls[k].summary.total_projects <= summary.total_projects
                  /\ calls[k].summary.total_projects >= Len(InitialProjects)

\* by how much the totals of the summary after exceed those of the summary before
Raised(before, after) ==
    [ f \in { "total_projects", "total_subsystems", "total_parts", "total_assemblies" }
        |-> after[f] - before[f] ]

\* by how much the pending call c raises the totals when it runs on now
RaisedBy(c) ==
    Raised(getDatabaseSummary(mockProjects), getDatabaseSummary(OutcomeOf(c).projects))

\* the pending calls that store something when they run on now
Storing == { k \in Calls : calls[k].pc = "waiting"
                            /\ OutcomeOf(calls[k]).projects # mockProjects }

StoredIds(projects) ==
    { projects[i]._id : i \in 1 .. Len(projects) }
      \cup { projects[ij[1]].subsystems[ij[2]]._id : ij \in SubsystemsIn(projects) }
      \cup { projects[x[1]].subsystems[x[2]].parts[x[3]]._id : x \in PartsIn(projects) }
      \cup { projects[x[1]].subsystems[x[2]].assemblies[x[3]]._id :
               x \in AssembliesIn(projects) }

\* the parent named by the call record c matches nothing in the stored projects
UnknownParent(c) ==
    LET i == FindIndex(mockProjects, c.projectId)
    IN  \/ c.op = "createSubsystem" /\ i = 0
        \/ /\ c.op \in { "createPart", "createAssembly" }
           /\ \/ i = 0
              \/ i # 0 /\ FindIndex(mockProjects[i].subsystems, c.subsystemId) = 0

\* the return of a create under a parent that matches nothing hands out the clock
\* reading as _id, which no stored record has, and stores nothing
C38Step ==
    \A k \in Calls :
        ( calls[k].pc = "waiting" /\ calls'[k].pc = "done" /\ UnknownParent(calls[k]) ) =>
            /\ calls'[k].result = NewId(clock)
            /\ calls'[k].result \notin StoredIds(mockProjects)
            /\ mockProjects' = mockProjects
            /\ getDatabaseSummary(mockProjects') = getDatabaseSummary(mockProjects)

\* C38: createSubsystem with a projectId that matches no project, and createPart and
\* createAssembly with a projectId or subsystemId that matches nothing, return a new
\* object with a fresh _id and store nothing: the totals of the summary and every
\* project are unchanged.
UnknownParentStoresNothing == [][C38Step]_vars

\* C39: after any interleaving of concurrent createProject, createSubsystem,
\* createPart and createAssembly calls, no two stored projects share an _id, and no
\* two subsystems, parts or assemblies under the same parent share an _id.
UniqueIds ==
    LET Distinct(arr) ==
            \A i \in 1 .. Len(arr), j \in 1 .. Len(arr) : arr[i]._id = arr[j]._id => i = j
    IN  /\ Distinct(mockProjects)
        /\ \A i \in 1 .. Len(mockProjects) : Distinct(mockProjects[i].subsystems)
        /\ \A ij \in SubsystemsIn(mockProjects) :
              /\ Distinct(mockProjects[ij[1]].subsystems[ij[2]].parts)
              /\ Distinct(mockProjects[ij[1]].subsystems[ij[2]].assemblies)

====
